---------------------------- MODULE Spec2Model ----------------------------
(***************************************************************************)
(* Memory subsystem of tiny_aria: WorkingMemory (short-term cache),        *)
(* EpisodicMemory (SQLite-backed episode table), AssociationNetwork        *)
(* (weighted concept graph) and MemoryLayer.process (one turn of the       *)
(* coordinator).  Each component has its own specification over a shared   *)
(* set of variables; a specification leaves the other components' state    *)
(* untouched.                                                              *)
(*                                                                         *)
(* Numbers: importance, strength and valence are fixed-point tenths        *)
(* (0.5 is 5).  The clock `now` stands for time.time(); one tick is a      *)
(* tenth of an hour, so that score = importance - age/3600 becomes         *)
(* importance - (now - timestamp) in tenths.                               *)
(***************************************************************************)
EXTENDS Integers, Sequences, FiniteSets, TLC

VARIABLES
    now,            \* time.time()
    calls,          \* number of calls issued so far (bounded by MaxCalls)
    \* ---- WorkingMemory
    capacity,       \* WorkingMemory.capacity
    items,          \* WorkingMemory.items: deque(maxlen=capacity) of keys
    item_map,       \* WorkingMemory.item_map: key -> MemoryItem
    wm_last,        \* the last call made on the cache and what it returned
    \* ---- EpisodicMemory
    max_episodes,   \* EpisodicMemory.max_episodes
    episodes,       \* the rows of table `episodes`, in rowid order
    epi_last,       \* the last call made on the store and what it returned
    \* ---- AssociationNetwork
    max_associations,   \* AssociationNetwork.max_associations
    g_nodes,        \* graph nodes: concept -> node attributes
    g_edges,        \* graph edges with their attributes, in creation order
    graph_last,     \* the last call made on the graph and what it did
    \* ---- MemoryLayer.process (one turn)
    turn_pc,        \* the step of process() the turn is at
    percept,        \* what the turn's context holds
    turn_log,       \* the subsystem calls made so far in this turn, in order
    turn_raised,    \* the subsystem calls that raised in this turn
    outcome,        \* how process() ended: a result, the error dict, or raised
    \* ---- threads calling into the AssociationNetwork
    gth_pc,         \* thread -> the statement of create_association it is at
    gth_local,      \* thread -> its local variables (strength, what it read)
    \* ---- threads calling into the EpisodicMemory
    epi_lock,       \* EpisodicMemory._lock: <<holder>>, or <<>> when free
    eth_pc,         \* thread -> where it is in its call
    eth_call,       \* thread -> the call it is making
    eth_local,      \* thread -> the row count it read, the rows its read returned
    \* ---- the snapshot file of the AssociationNetwork
    snap_file,      \* the file at save_path: <<>> when absent, else <<chunks>>
    snap_pc,        \* the owning process: "running", "saving", "crashed"
    snap_saved,     \* the graph of the last save that completed: <<>> or <<g>>
    \* ---- MemoryLayer._retrieve_relevant_memories
    recall_last,    \* the last recall: what it gathered and what it returned
    \* ---- MemoryManager
    consolidation_counter,      \* MemoryManager.consolidation_counter
    consolidation_threshold,    \* MemoryManager.consolidation_threshold
    mgr_pc,         \* where trigger_consolidation is: "idle" between calls
    mgr_queue,      \* the create_association calls the run has still to make
    mgr_calls,      \* how many times trigger_consolidation has been called
    mgr_runs,       \* how many times _perform_memory_consolidation was entered
    mgr_last        \* the last trigger_consolidation call and how it ended

cacheVars == <<capacity, items, item_map, wm_last>>
epiVars == <<max_episodes, episodes, epi_last>>
graphVars == <<max_associations, g_nodes, g_edges, graph_last>>
layerVars == <<turn_pc, percept, turn_log, turn_raised, outcome>>
gthVars == <<gth_pc, gth_local>>
ethVars == <<epi_lock, eth_pc, eth_call, eth_local>>
snapVars == <<snap_file, snap_pc, snap_saved>>
recallVars == <<recall_last>>
mgrVars == <<consolidation_counter, consolidation_threshold, mgr_pc, mgr_queue,
             mgr_calls, mgr_runs, mgr_last>>

\* what each component leaves alone
notCache == <<epiVars, graphVars, layerVars, gthVars, ethVars, snapVars, recallVars, mgrVars>>
notEpisodic == <<cacheVars, graphVars, layerVars, gthVars, ethVars, snapVars, recallVars, mgrVars>>
notGraph == <<cacheVars, epiVars, layerVars, gthVars, ethVars, snapVars, recallVars, mgrVars>>
notLayer == <<now, calls, cacheVars, epiVars, graphVars, gthVars, ethVars, snapVars, recallVars, mgrVars>>
notGraphThreads == <<calls, cacheVars, epiVars, layerVars, ethVars, snapVars, recallVars, mgrVars>>
notEpiThreads == <<now, cacheVars, graphVars, layerVars, gthVars, snapVars, recallVars, mgrVars>>

vars == <<now, calls, capacity, items, item_map, wm_last,
          max_episodes, episodes, epi_last,
          max_associations, g_nodes, g_edges, graph_last,
          turn_pc, percept, turn_log, turn_raised, outcome,
          gth_pc, gth_local,
          epi_lock, eth_pc, eth_call, eth_local,
          snap_file, snap_pc, snap_saved,
          recall_last,
          consolidation_counter, consolidation_threshold, mgr_pc, mgr_queue,
          mgr_calls, mgr_runs, mgr_last>>

-----------------------------------------------------------------------------
(* Bounds of the model *)

MaxClock == 1
MaxCalls == 3
MaxCapacity == 2
MaxEpisodes == 2
MaxAssociations == 2
NumThreads == 2

None == "None"

-----------------------------------------------------------------------------
(* Generic helpers *)

Range(s) == {s[i] : i \in DOMAIN s}

RECURSIVE SeqRemoveFirst(_, _)
\* deque.remove(x): removes the first occurrence of x
SeqRemoveFirst(s, x) ==
    IF s = <<>> THEN <<>>
    ELSE IF Head(s) = x THEN Tail(s)
    ELSE <<Head(s)>> \o SeqRemoveFirst(Tail(s), x)

\* time passes between calls
Tick ==
    /\ now < MaxClock
    /\ now' = now + 1
    /\ UNCHANGED calls

\* one more call is issued
Call ==
    /\ calls < MaxCalls
    /\ calls' = calls + 1

-----------------------------------------------------------------------------
(* WorkingMemory  (src/layers/memory/working_memory.py) *)

Keys == {"", "k1", "k2", "k3"}
Contents == {"c1", "c2"}
Importances == {5, 7, 9}

MemoryItem(c, t, imp) ==
    [content |-> c, timestamp |-> t, access_count |-> 0,
     last_access |-> 0, importance |-> imp]

\* MemoryItem.access()
access(item, t) ==
    [item EXCEPT !.access_count = @ + 1, !.last_access = t]

\* deque(maxlen=n).append(x): a full deque drops its leftmost element
DequeAppend(dq, x, maxlen) ==
    IF maxlen = 0 THEN dq
    ELSE IF Len(dq) >= maxlen THEN Tail(dq) \o <<x>>
    ELSE dq \o <<x>>

\* score = item.importance - (age / 3600.0)
Score(item, t) == item.importance - (t - item.timestamp)

\* min_score = float('inf'): above every score of the model
Infinity == 1000

RECURSIVE EvictScan(_, _, _, _, _, _)
\* the loop of _evict_least_important: strict "<" keeps the first minimum
EvictScan(dq, map, t, i, best, min_score) ==
    IF i > Len(dq) THEN best
    ELSE IF dq[i] \in DOMAIN map /\
            Score(map[dq[i]], t) < min_score
         THEN EvictScan(dq, map, t, i + 1, dq[i], Score(map[dq[i]], t))
         ELSE EvictScan(dq, map, t, i + 1, best, min_score)

least_important_key(dq, map, t) == EvictScan(dq, map, t, 1, None, Infinity)

\* `if least_important_key:` -- None and the empty string are both falsy
Truthy(key) == key # None /\ key # ""

\* _evict_least_important: the pair <<items, item_map>> after the call
EvictLeastImportant(dq, map, t) ==
    IF dq = <<>> THEN <<dq, map>>
    ELSE LET k == least_important_key(dq, map, t) IN
         IF Truthy(k)
         THEN <<SeqRemoveFirst(dq, k),
                [x \in (DOMAIN map) \ {k} |-> map[x]]>>
         ELSE <<dq, map>>

\* a store that moves an updated key to the newest position
Store_Refreshing(key, content, importance) ==
    /\ Call
    /\ IF key \in DOMAIN item_map
       THEN /\ item_map' = [item_map EXCEPT ![key] =
                   access([@ EXCEPT !.content = content,
                                    !.importance = importance], now)]
            /\ items' = SeqRemoveFirst(items, key) \o <<key>>
       ELSE LET ev == IF Len(items) >= capacity
                      THEN EvictLeastImportant(items, item_map, now)
                      ELSE <<items, item_map>>
            IN /\ items' = DequeAppend(ev[1], key, capacity)
               /\ item_map' = [x \in (DOMAIN ev[2]) \cup {key} |->
                                 IF x = key
                                 THEN MemoryItem(content, now, importance)
                                 ELSE ev[2][x]]
    /\ wm_last' = [op |-> "store", key |-> key, result |-> None]
    /\ UNCHANGED <<capacity, now>>
    /\ UNCHANGED notCache

\* WorkingMemory.store(key, content, importance)
Store(key, content, importance) ==
    /\ Call
    /\ IF key \in DOMAIN item_map
       THEN /\ item_map' = [item_map EXCEPT ![key] =
                   access([@ EXCEPT !.content = content,
                                    !.importance = importance], now)]
            /\ items' = items
       ELSE LET ev == IF Len(items) >= capacity
                      THEN EvictLeastImportant(items, item_map, now)
                      ELSE <<items, item_map>>
            IN /\ items' = DequeAppend(ev[1], key, capacity)
               /\ item_map' = [x \in (DOMAIN ev[2]) \cup {key} |->
                                 IF x = key
                                 THEN MemoryItem(content, now, importance)
                                 ELSE ev[2][x]]
    /\ wm_last' = [op |-> "store", key |-> key, result |-> None]
    /\ UNCHANGED <<capacity, now>>
    /\ UNCHANGED notCache

\* a retrieve that keeps a record of the key it missed
Retrieve_RecordingMiss(key) ==
    /\ Call
    /\ IF key \in DOMAIN item_map
       THEN /\ item_map' = [item_map EXCEPT ![key] = access(@, now)]
            /\ items' = items
            /\ wm_last' = [op |-> "retrieve", key |-> key,
                           result |-> item_map[key].content]
       ELSE /\ item_map' = item_map
            /\ items' = Append(items, key)
            /\ wm_last' = [op |-> "retrieve", key |-> key, result |-> None]
    /\ UNCHANGED <<capacity, now>>
    /\ UNCHANGED notCache

\* WorkingMemory.retrieve(key)
Retrieve(key) ==
    /\ Call
    /\ IF key \in DOMAIN item_map
       THEN /\ item_map' = [item_map EXCEPT ![key] = access(@, now)]
            /\ wm_last' = [op |-> "retrieve", key |-> key,
                           result |-> item_map[key].content]
       ELSE /\ item_map' = item_map
            /\ wm_last' = [op |-> "retrieve", key |-> key, result |-> None]
    /\ UNCHANGED <<capacity, items, now>>
    /\ UNCHANGED notCache

\* WorkingMemory.get_current_context(): one entry per key of the deque that
\* the map holds, in the order of the deque
get_current_context(dq, map, t) ==
    LET held == SelectSeq(dq, LAMBDA k : k \in DOMAIN map)
    IN [i \in DOMAIN held |->
          [key |-> held[i], content |-> map[held[i]].content,
           importance |-> map[held[i]].importance,
           recency |-> t - map[held[i]].timestamp]]

\* WorkingMemory.clear()
Clear ==
    /\ Call
    /\ items' = <<>>
    /\ item_map' = <<>>
    /\ wm_last' = [op |-> "clear", key |-> None, result |-> None]
    /\ UNCHANGED <<capacity, now>>
    /\ UNCHANGED notCache

\* WorkingMemory.__init__
CacheInit ==
    /\ capacity \in 1..MaxCapacity
    /\ items = <<>>
    /\ item_map = <<>>
    /\ wm_last = [op |-> "init", key |-> None, result |-> None]

CacheStore == \E k \in Keys, c \in Contents, imp \in Importances : Store(k, c, imp)
CacheRetrieve == \E k \in Keys : Retrieve(k)
CacheTick == Tick /\ UNCHANGED cacheVars /\ UNCHANGED notCache

\* the calls of a conversation that stores some keys again
UpsertKeys == {"k1", "k2", "k3"}
UpsertImportances == {5, 9}
UpsertStore ==
    \E k \in UpsertKeys, c \in Contents, imp \in UpsertImportances :
        Store(k, c, imp)
UpsertRetrieve == Retrieve("k1")

-----------------------------------------------------------------------------
(* EpisodicMemory  (src/layers/memory/episodic_memory.py) *)

\* episodes_to_remove = count - self.max_episodes + 100
CleanupMargin == 100

EpisodeIds == {"e1", "e2", "e3"}

\* the arguments of store_episode besides the id; payloads are JSON values
\* (dicts of strings, lists of strings), which json.dumps/json.loads accept
EpisodeInputs ==
    { [content |-> "hello",   context |-> "s1", emotional_valence |-> 5,
       importance |-> 8, tags |-> <<"greeting", "test">>],
      [content |-> "goodbye", context |-> "s1", emotional_valence |-> -3,
       importance |-> 8, tags |-> <<"farewell">>],
      [content |-> "hello",   context |-> "s2", emotional_valence |-> 0,
       importance |-> 3, tags |-> <<>>],
      [content |-> "thanks",  context |-> "s2", emotional_valence |-> 5,
       importance |-> 5, tags |-> <<"greeting">>] }

\* json.dumps(value): the TEXT kept in a column
JsonDumps(value) == <<"json", value>>

\* json.loads(text)
JsonLoads(text) == text[2]

\* an absent optional value is <<>>, a present one <<value>>
\* the row written by INSERT OR REPLACE for Episode(id, ..., timestamp=t)
EpisodeRow(id, in, t) ==
    [id |-> id,
     content |-> JsonDumps(in.content),
     timestamp |-> t,
     context |-> JsonDumps(in.context),
     emotional_valence |-> in.emotional_valence,
     importance |-> in.importance,
     tags |-> JsonDumps(in.tags),
     access_count |-> 0,
     last_access |-> 0]

\* _row_to_episode
row_to_episode(row) ==
    [id |-> row.id,
     content |-> JsonLoads(row.content),
     timestamp |-> row.timestamp,
     context |-> JsonLoads(row.context),
     emotional_valence |-> row.emotional_valence,
     importance |-> row.importance,
     tags |-> JsonLoads(row.tags),
     access_count |-> row.access_count,
     last_access |-> row.last_access]

\* rows of `table` kept by a predicate on the position, in rowid order
RECURSIVE KeepRowsBetween(_, _, _, _)
KeepRowsBetween(table, keep, first, last) ==
    IF first > last THEN <<>>
    ELSE IF first = last
         THEN (IF first \in keep THEN <<table[first]>> ELSE <<>>)
         ELSE LET middle == (first + last) \div 2
              IN KeepRowsBetween(table, keep, first, middle)
                     \o KeepRowsBetween(table, keep, middle + 1, last)

KeepRows(table, keep, i) == KeepRowsBetween(table, keep, i, Len(table))

\* an INSERT OR REPLACE that carries the access count of the old row over
InsertOrReplace_KeepingCount(table, row) ==
    KeepRows(table, {i \in DOMAIN table : table[i].id # row.id}, 1)
    \o << IF \E i \in DOMAIN table : table[i].id = row.id
          THEN [row EXCEPT !.access_count =
                   table[CHOOSE i \in DOMAIN table :
                            table[i].id = row.id].access_count]
          ELSE row >>

\* INSERT OR REPLACE INTO episodes: a row with the same id is deleted and
\* the new row gets a fresh rowid
InsertOrReplace(table, row) ==
    KeepRows(table, {i \in DOMAIN table : table[i].id # row.id}, 1) \o <<row>>

\* an order that puts the newest of equally important rows first
SortsBefore_NewestFirst(table, i, j) ==
    \/ table[i].importance < table[j].importance
    \/ /\ table[i].importance = table[j].importance
       /\ table[i].timestamp > table[j].timestamp
    \/ /\ table[i].importance = table[j].importance
       /\ table[i].timestamp = table[j].timestamp
       /\ i < j

\* ORDER BY importance ASC, timestamp ASC (rows that tie come in rowid order)
SortsBefore(table, i, j) ==
    \/ table[i].importance < table[j].importance
    \/ /\ table[i].importance = table[j].importance
       /\ table[i].timestamp < table[j].timestamp
    \/ /\ table[i].importance = table[j].importance
       /\ table[i].timestamp = table[j].timestamp
       /\ i < j

\* DELETE FROM episodes WHERE id IN (SELECT id ... ORDER BY ... LIMIT n)
DeleteLeastImportant(table, n) ==
    KeepRows(table,
             {i \in DOMAIN table :
                 Cardinality({j \in DOMAIN table : SortsBefore(table, j, i)}) >= n},
             1)

\* a limit check that lets one row too many through
OverLimit_OffByOne(count, limit) == count > limit + 1

\* if count > self.max_episodes
OverLimit(count, limit) == count > limit

\* _cleanup_if_needed: the table after the call
CleanupIfNeeded(table, limit) ==
    LET count == Len(table) IN
    IF OverLimit(count, limit)
    THEN DeleteLeastImportant(table, count - limit + CleanupMargin)
    ELSE table

\* EpisodicMemory.store_episode(episode_id, content, context, valence,
\* importance, tags), called by one thread: insert, then _cleanup_if_needed
StoreEpisode(id, in) ==
    /\ Call
    /\ LET inserted == InsertOrReplace(episodes, EpisodeRow(id, in, now))
           cleaned == CleanupIfNeeded(inserted, max_episodes)
       IN /\ episodes' = cleaned
          /\ epi_last' = [op |-> "store", id |-> id, args |-> <<in>>,
                          result |-> <<>>, after_store |-> <<>>,
                          pruned |-> Len(inserted) - Len(cleaned)]
    /\ UNCHANGED <<max_episodes, now>>
    /\ UNCHANGED notEpisodic

\* _update_access_stats: UPDATE episodes SET access_count = access_count + 1,
\* last_access = ? WHERE id = ?
UpdateAccessStats(table, id, t) ==
    [i \in DOMAIN table |->
        IF table[i].id = id
        THEN [table[i] EXCEPT !.access_count = @ + 1, !.last_access = t]
        ELSE table[i]]

\* EpisodicMemory.retrieve_episode(episode_id), called by one thread
RetrieveEpisode(id) ==
    /\ Call
    /\ LET found == {i \in DOMAIN episodes : episodes[i].id = id}
           stored == IF epi_last.op = "store" /\ epi_last.id = id
                     THEN epi_last.args ELSE <<>>
       IN IF found # {}
          THEN /\ episodes' = UpdateAccessStats(episodes, id, now)
               /\ epi_last' = [op |-> "retrieve", id |-> id, args |-> <<>>,
                               result |-> <<row_to_episode(
                                   episodes[CHOOSE i \in found : TRUE])>>,
                               after_store |-> stored, pruned |-> 0]
          ELSE /\ episodes' = episodes
               /\ epi_last' = [op |-> "retrieve", id |-> id, args |-> <<>>,
                               result |-> <<>>,
                               after_store |-> stored, pruned |-> 0]
    /\ UNCHANGED <<max_episodes, now>>
    /\ UNCHANGED notEpisodic

\* EpisodicMemory.__init__ / _init_database on a fresh db_path
EpisodicInit ==
    /\ max_episodes \in 1..MaxEpisodes
    /\ episodes = <<>>
    /\ epi_last = [op |-> "init", id |-> None, args |-> <<>>, result |-> <<>>,
                   after_store |-> <<>>, pruned |-> 0]

\* an _init_database that starts from an empty table
InitDatabase_Recreate(table) == <<>>

\* _init_database on a db_path that already holds the table:
\* CREATE TABLE IF NOT EXISTS and CREATE INDEX IF NOT EXISTS change no row
InitDatabase(table) == table

\* the process restarts: a new EpisodicMemory(config) on the same db_path,
\* whose first call is retrieve_episode(episode_id)
ReopenRetrieve(id) ==
    /\ Call
    /\ LET reopened == InitDatabase(episodes)
           found == {i \in DOMAIN reopened : reopened[i].id = id}
           \* the arguments of the store_episode(id, ...) that returned last,
           \* when pruning has left its row in the table
           stored == IF /\ epi_last.op = "store"
                        /\ epi_last.id = id
                        /\ \E i \in DOMAIN episodes : episodes[i].id = id
                     THEN epi_last.args ELSE <<>>
       IN IF found # {}
          THEN /\ episodes' = UpdateAccessStats(reopened, id, now)
               /\ epi_last' = [op |-> "reopen_retrieve", id |-> id,
                               args |-> <<>>,
                               result |-> <<row_to_episode(
                                   reopened[CHOOSE i \in found : TRUE])>>,
                               after_store |-> stored, pruned |-> 0]
          ELSE /\ episodes' = reopened
               /\ epi_last' = [op |-> "reopen_retrieve", id |-> id,
                               args |-> <<>>, result |-> <<>>,
                               after_store |-> stored, pruned |-> 0]
    /\ UNCHANGED <<max_episodes, now>>
    /\ UNCHANGED notEpisodic

EpiStore == \E id \in EpisodeIds, in \in EpisodeInputs : StoreEpisode(id, in)
EpiReopenRetrieve == \E id \in EpisodeIds : ReopenRetrieve(id)
EpiRetrieve == \E id \in EpisodeIds : RetrieveEpisode(id)
EpiTick == Tick /\ UNCHANGED epiVars /\ UNCHANGED notEpisodic

-----------------------------------------------------------------------------
(* search_episodes by tags.  The tags column holds the JSON text of the    *)
(* tag list and the tag predicate is a LIKE pattern on that text, so text  *)
(* is modelled here character by character: a string is a sequence of      *)
(* one-character strings, and "<pe>" stands for one non-ASCII letter       *)
(* (U+043F).                                                               *)

\* max_episodes, default 1000
DefaultMaxEpisodes == 1000

\* max_results of search_episodes, count of get_recent_episodes
SearchLimit == 10
RecentLimit == 5

Min(a, b) == IF a < b THEN a ELSE b

Abs(x) == IF x < 0 THEN -x ELSE x

Greeting == <<"g", "r", "e", "e", "t", "i", "n", "g">>
GreetingCapital == <<"G", "r", "e", "e", "t", "i", "n", "g">>
Farewell == <<"f", "a", "r", "e", "w", "e", "l", "l">>
Abc == <<"a", "b", "c">>
AUnderscoreC == <<"a", "_", "c">>
Privet == <<"<pe>">>

\* json.dumps of one character of a string (ensure_ascii=True)
JsonEscape(ch) ==
    CASE ch = "<pe>" -> <<"\\", "u", "0", "4", "3", "f">>
      [] ch = "\"" -> <<"\\", "\"">>
      [] ch = "\\" -> <<"\\", "\\">>
      [] OTHER -> <<ch>>

RECURSIVE JsonString(_)
\* json.dumps of a string, without the quotes around it
JsonString(str) ==
    IF str = <<>> THEN <<>> ELSE JsonEscape(Head(str)) \o JsonString(Tail(str))

RECURSIVE JsonItems(_)
JsonItems(list) ==
    IF list = <<>> THEN <<>>
    ELSE <<"\"">> \o JsonString(Head(list)) \o <<"\"">>
         \o (IF Len(list) > 1 THEN <<",", " ">> ELSE <<>>)
         \o JsonItems(Tail(list))

\* json.dumps(episode.tags): the characters of the text in the tags column
JsonText(list) == <<"[">> \o JsonItems(list) \o <<"]">>

\* the pattern f'%"{tag}"%'
TagPattern(tag) == <<"%", "\"">> \o tag \o <<"\"", "%">>

\* LIKE compares ASCII letters without regard to case
Lower(ch) == IF ch = "G" THEN "g" ELSE ch

\* text LIKE pattern: % stands for any run of characters, _ for any one;
\* from[i, j]: text from position j on matches pattern from position i on
Like(pattern, text) ==
    LET from[i \in 1..(Len(pattern) + 1), j \in 1..(Len(text) + 1)] ==
            IF i > Len(pattern) THEN j > Len(text)
            ELSE IF pattern[i] = "%"
                 THEN \/ i = Len(pattern)
                      \/ from[i + 1, j]
                      \/ j <= Len(text) /\ from[i, j + 1]
                 ELSE /\ j <= Len(text)
                      /\ pattern[i] = "_" \/ Lower(pattern[i]) = Lower(text[j])
                      /\ from[i + 1, j + 1]
    IN from[1, 1]

\* the rows selected by the tag conditions, ORed
TagRows(table, tags) ==
    {i \in DOMAIN table :
        \E k \in DOMAIN tags :
            Like(TagPattern(tags[k]), JsonText(JsonLoads(table[i].tags)))}

\* ORDER BY importance DESC, timestamp DESC (rows that tie: rowid order)
RanksBefore(table, i, j) ==
    \/ table[i].importance > table[j].importance
    \/ /\ table[i].importance = table[j].importance
       /\ table[i].timestamp > table[j].timestamp
    \/ /\ table[i].importance = table[j].importance
       /\ table[i].timestamp = table[j].timestamp
       /\ i < j

\* the positions of the rows SELECT ... ORDER BY ... LIMIT max_results returns
SelectedRows(table, rows, max_results) ==
    LET rank == [i \in rows |->
                   Cardinality({j \in rows : RanksBefore(table, j, i)})]
        ordered == [k \in 1..Cardinality(rows) |->
                      CHOOSE i \in rows : rank[i] = k - 1]
    IN SubSeq(ordered, 1, Min(Cardinality(rows), max_results))

\* what the threads of a conversation store: tag lists
TagLists == {<<Greeting>>, <<Farewell>>, <<Abc>>, <<Privet>>,
             <<Greeting, Farewell>>}
TagQueries == {<<Greeting>>, <<GreetingCapital>>, <<AUnderscoreC>>, <<Privet>>,
               <<Farewell, Abc>>}
TagSearchLimits == {1, SearchLimit}

TaggedInput(tags, importance) ==
    [content |-> "hello", context |-> "s1", emotional_valence |-> 0,
     importance |-> importance, tags |-> tags]

\* the table of test_search_episodes: greeting, farewell, greeting
ThreeEpisodes ==
    << EpisodeRow("e1", TaggedInput(<<Greeting>>, 8), 0),
       EpisodeRow("e2", TaggedInput(<<Farewell>>, 6), 0),
       EpisodeRow("e3", TaggedInput(<<Greeting>>, 7), 0) >>

TagStore ==
    \E id \in {"e1", "e4"}, tags \in TagLists, importance \in {5, 9} :
        StoreEpisode(id, TaggedInput(tags, importance))

\* EpisodicMemory.search_episodes(tags=tags, max_results=max_results)
SearchEpisodesByTags(tags, max_results) ==
    /\ Call
    /\ LET selected == SelectedRows(episodes, TagRows(episodes, tags),
                                    max_results)
       IN /\ epi_last' = [op |-> "search", tags |-> tags,
                          max_results |-> max_results,
                          result |-> [k \in DOMAIN selected |->
                                        row_to_episode(episodes[selected[k]])]]
          /\ episodes' = [i \in DOMAIN episodes |->
                            IF i \in Range(selected)
                            THEN [episodes[i] EXCEPT !.access_count = @ + 1,
                                                     !.last_access = now]
                            ELSE episodes[i]]
    /\ UNCHANGED <<max_episodes, now>>
    /\ UNCHANGED notEpisodic

TagSearch ==
    \E tags \in TagQueries, max_results \in TagSearchLimits :
        SearchEpisodesByTags(tags, max_results)

\* EpisodicMemory.__init__ on a db_path that is new or holds a table already
TagSearchInit ==
    /\ max_episodes = DefaultMaxEpisodes
    /\ episodes \in {<<>>, ThreeEpisodes}
    /\ epi_last = [op |-> "init", id |-> None, args |-> <<>>, result |-> <<>>,
                   after_store |-> <<>>, pruned |-> 0]

-----------------------------------------------------------------------------
(* AssociationNetwork  (src/layers/memory/associations.py) *)
(* Strengths are integers in units of 1/1600, so that the repeated halving *)
(* of (current + strength) / 2.0 stays exact; in the graph specifications  *)
(* one clock tick is one hour.                                             *)

\* edges_to_remove = number_of_edges() - self.max_associations + 100
GraphCleanupMargin == 100

Concepts == {"dog", "animal", "pet"}
\* the concept pairs callers associate: both orders of one pair, and a pair
\* of equal names
ConceptPairs == {<<"dog", "animal">>, <<"animal", "dog">>,
                 <<"dog", "pet">>, <<"pet", "pet">>}
Strengths == {480, 1440}            \* 0.3 and 0.9
AssociationTypes == {"general", "is_a"}

\* exp(-decay_rate * hours) for the default decay_rate 0.01, in thousandths:
\* exp(-0.01) = 0.990, and exp(-0.01 h) = exp(-0.01)^h
DecayPerHour == 990
Thousand == 1000

RECURSIVE DecayFactor(_)
DecayFactor(hours) ==
    IF hours <= 0 THEN Thousand
    ELSE (DecayFactor(hours - 1) * DecayPerHour) \div Thousand

\* a decay that lets the strength grow with the time elapsed
apply_decay_Growing(edge, t) ==
    (edge.strength * (Thousand + (t - edge.last_reinforcement))) \div Thousand

\* _apply_decay(edge_data)
apply_decay(edge, t) ==
    (edge.strength * DecayFactor(t - edge.last_reinforcement)) \div Thousand

\* graph.has_node(concept)
has_node(nodes, c) == c \in DOMAIN nodes

\* the positions of the edge joining c1 and c2 (the graph is undirected)
EdgeAt(edges, c1, c2) ==
    {i \in DOMAIN edges : {edges[i].a, edges[i].b} = {c1, c2}}

\* graph.has_edge(concept1, concept2)
has_edge(edges, c1, c2) == EdgeAt(edges, c1, c2) # {}

\* graph.add_node(concept, creation_time=..., activation_count=0, ...)
add_node(nodes, c, t) ==
    IF has_node(nodes, c) THEN nodes
    ELSE [x \in (DOMAIN nodes) \cup {c} |->
            IF x = c
            THEN [creation_time |-> t, activation_count |-> 0,
                  last_activation |-> t]
            ELSE nodes[x]]

\* the new edge of graph.add_edge(concept1, concept2, strength=..., ...)
NewEdge(c1, c2, strength, type, t) ==
    [a |-> c1, b |-> c2, strength |-> strength, type |-> type,
     creation_time |-> t, last_reinforcement |-> t,
     reinforcement_count |-> 1]

\* an update that replaces the strength and restarts the edge
Reinforce_Restart(edge, strength, t) ==
    [edge EXCEPT !.strength = strength,
                 !.creation_time = t,
                 !.last_reinforcement = t,
                 !.reinforcement_count = @ + 1]

\* the update of an existing association
Reinforce(edge, strength, t) ==
    [edge EXCEPT !.strength = (@ + strength) \div 2,
                 !.last_reinforcement = t,
                 !.reinforcement_count = @ + 1]

\* an order of the edges by the strength they were last given
WeakerBefore_ByBase(edges, t, i, j) ==
    \/ edges[i].strength < edges[j].strength
    \/ edges[i].strength = edges[j].strength /\ i < j

\* edges sorted by current strength, weak first (list.sort is stable: edges
\* that tie keep the order in which graph.edges() lists them)
WeakerBefore(edges, t, i, j) ==
    \/ apply_decay(edges[i], t) < apply_decay(edges[j], t)
    \/ apply_decay(edges[i], t) = apply_decay(edges[j], t) /\ i < j

\* a cleanup that leaves the isolated nodes in the graph
RemoveIsolates_None(nodes, edges) == nodes

\* nodes left after graph.remove_nodes_from(nx.isolates(graph))
RemoveIsolates(nodes, edges) ==
    [c \in {x \in DOMAIN nodes :
              \E i \in DOMAIN edges : x \in {edges[i].a, edges[i].b}}
       |-> nodes[c]]

\* a limit check that lets one edge too many through
WithinLimit_OffByOne(count, limit) == count <= limit + 1

\* if number_of_edges() <= max_associations: return
WithinLimit(count, limit) == count <= limit

\* _cleanup_weak_associations: <<nodes, edges>> after the call
CleanupWeakAssociations(nodes, edges, limit, t) ==
    IF WithinLimit(Len(edges), limit) THEN <<nodes, edges>>
    ELSE LET edges_to_remove == Len(edges) - limit + GraphCleanupMargin
             kept == KeepRows(edges,
                        {i \in DOMAIN edges :
                           Cardinality({j \in DOMAIN edges :
                               WeakerBefore(edges, t, j, i)}) >= edges_to_remove},
                        1)
         IN <<RemoveIsolates(nodes, kept), kept>>

\* AssociationNetwork.create_association(concept1, concept2, strength, type),
\* called by one thread
CreateAssociation(c1, c2, strength, type) ==
    /\ Call
    /\ \E at \in {EdgeAt(g_edges, c1, c2)} :
       \E edges2 \in {IF at # {}
                      THEN [i \in DOMAIN g_edges |->
                              IF i \in at THEN Reinforce(g_edges[i], strength, now)
                              ELSE g_edges[i]]
                      ELSE g_edges \o <<NewEdge(c1, c2, strength, type, now)>>} :
       \E cleaned \in {CleanupWeakAssociations(
                           add_node(add_node(g_nodes, c1, now), c2, now),
                           edges2, max_associations, now)} :
          /\ g_nodes' = cleaned[1]
          /\ g_edges' = cleaned[2]
          /\ graph_last' = [op |-> "create", a |-> c1, b |-> c2,
                            removed |-> Len(edges2) - Len(cleaned[2])]
    /\ UNCHANGED <<max_associations, now>>
    /\ UNCHANGED notGraph

\* AssociationNetwork.__init__ with no snapshot file at save_path
GraphInit ==
    /\ max_associations \in 1..MaxAssociations
    /\ g_nodes = <<>>
    /\ g_edges = <<>>
    /\ graph_last = [op |-> "init", a |-> None, b |-> None, removed |-> 0]

GraphCreate ==
    \E p \in ConceptPairs, st \in Strengths, ty \in AssociationTypes :
        CreateAssociation(p[1], p[2], st, ty)
GraphTick == Tick /\ UNCHANGED graphVars /\ UNCHANGED notGraph

-----------------------------------------------------------------------------
(* Queries on the AssociationNetwork: get_associations, activate_concepts, *)
(* find_path.  Activation levels are in the unit of the strengths          *)
(* (1600 = 1.0), path weights in thousandths.                              *)

\* association_threshold, default 0.5
AssociationThreshold == 800
\* get_associations(concept, max_results=10)
MaxResults == 10
\* activation_levels[concept] = 1.0
ActivationOne == 1600
\* weight = 1.0 / max(current_strength, 0.01)
MinStrength == 16
WeightScale == 1600000
\* max_associations, default 1000
DefaultMaxAssociations == 1000

\* the other end of an edge incident to c (c itself for a self-loop)
OtherEnd(edge, c) == IF edge.a = c THEN edge.b ELSE edge.a

\* the positions of the edges of graph.neighbors(concept), in the order of
\* the adjacency of concept
IncidentAt(edges, c) == {i \in DOMAIN edges : c \in {edges[i].a, edges[i].b}}

\* _activate_concept: activation_count += 1, last_activation = time.time(),
\* done `times` times
activate_concept(nodes, c, times, t) ==
    IF has_node(nodes, c) /\ times > 0
    THEN [nodes EXCEPT ![c] = [@ EXCEPT !.activation_count = @ + times,
                                        !.last_activation = t]]
    ELSE nodes

\* get_associations(concept, max_results): the associations of concept whose
\* current strength reaches the threshold, strongest first (the sort is
\* stable), cut to max_results
get_associations(nodes, edges, c, max_results, t) ==
    IF ~has_node(nodes, c) THEN <<>>
    ELSE LET current == [i \in IncidentAt(edges, c) |-> apply_decay(edges[i], t)]
             strong == {i \in DOMAIN current : current[i] >= AssociationThreshold}
             rank == [i \in strong |->
                        Cardinality({j \in strong :
                            \/ current[j] > current[i]
                            \/ current[j] = current[i] /\ j < i})]
             n == IF Cardinality(strong) < max_results
                  THEN Cardinality(strong) ELSE max_results
         IN [k \in 1..n |->
               LET i == CHOOSE x \in strong : rank[x] = k - 1
               IN [concept |-> OtherEnd(edges[i], c),
                   strength |-> current[i],
                   type |-> edges[i].type,
                   age |-> t - edges[i].creation_time,
                   reinforcements |-> edges[i].reinforcement_count]]

\* how many times c occurs in the list
Occurrences(list, c) == Cardinality({k \in DOMAIN list : list[k] = c})

MaxOf(set) == CHOOSE m \in set : \A x \in set : x <= m

\* activate_concepts(concepts): the map all_activations
activate_concepts(nodes, edges, concepts, t) ==
    LET activation_levels == {c \in Range(concepts) : has_node(nodes, c)}
        associations == [c \in activation_levels |->
                            get_associations(nodes, edges, c, MaxResults, t)]
        \* the values propagated into a neighbour by the seeds
        Propagated(n) ==
            {a.strength : a \in UNION {
                {x \in Range(associations[c]) : x.concept = n} :
                c \in activation_levels}}
        secondary_activations ==
            [n \in UNION {{x.concept : x \in Range(associations[c])} :
                            c \in activation_levels}
               |-> (ActivationOne * MaxOf(Propagated(n))) \div ActivationOne]
    IN [c \in activation_levels \cup DOMAIN secondary_activations |->
          IF c \in activation_levels THEN ActivationOne
          ELSE secondary_activations[c] \div 2]

\* the simple paths of the graph that extend `path` to `target`
RECURSIVE PathsFrom(_, _, _)
PathsFrom(edges, path, target) ==
    LET last == path[Len(path)] IN
    IF last = target THEN {path}
    ELSE UNION {PathsFrom(edges, Append(path, OtherEnd(edges[i], last)), target) :
                  i \in {j \in IncidentAt(edges, last) :
                           OtherEnd(edges[j], last) \notin Range(path)}}

\* weight = 1.0 / max(current_strength, 0.01)
EdgeWeight(edge, t) ==
    LET current_strength == apply_decay(edge, t)
    IN WeightScale \div
         (IF current_strength > MinStrength THEN current_strength ELSE MinStrength)

RECURSIVE PathWeight(_, _, _)
PathWeight(edges, path, t) ==
    IF Len(path) <= 1 THEN 0
    ELSE EdgeWeight(edges[CHOOSE i \in EdgeAt(edges, path[1], path[2]) : TRUE], t)
         + PathWeight(edges, Tail(path), t)

\* the paths nx.shortest_path(weighted_graph, start, end, weight='weight')
\* can return: those of least total weight (which one of several it returns
\* depends on the order of the adjacency)
ShortestPaths(edges, start, end, t) ==
    LET all == PathsFrom(edges, <<start>>, end)
        weight == [p \in all |-> PathWeight(edges, p, t)]
    IN {p \in all : \A q \in all : weight[p] <= weight[q]}

\* a hop check that lets one hop too many through
WithinHops_OffByOne(path, max_length) == Len(path) <= max_length + 2

\* if len(path) <= max_length + 1
WithinHops(path, max_length) == Len(path) <= max_length + 1

\* what find_path returns once nx.shortest_path has returned `path`
CheckedPath(path, max_length) ==
    IF WithinHops(path, max_length) THEN <<path>> ELSE <<>>

\* nx.Graph()
EmptyGraph == <<(<<>>), (<<>>)>>

\* ---- the graphs a snapshot file can hold when the process starts
NodeAt(t) == [creation_time |-> t, activation_count |-> 0, last_activation |-> t]

\* a hub with 11 associations, the last one the weakest
StarLeaves == <<"n01", "n02", "n03", "n04", "n05", "n06",
                "n07", "n08", "n09", "n10", "n11">>
StarGraph ==
    << [c \in {"hub"} \cup Range(StarLeaves) |-> NodeAt(0)],
       [i \in DOMAIN StarLeaves |->
          NewEdge("hub", StarLeaves[i],
                  IF i = Len(StarLeaves) THEN 1120 ELSE 1440, "general", 0)] >>

\* the chain dog - animal - living - entity
ChainGraph ==
    << [c \in {"dog", "animal", "living", "entity"} |-> NodeAt(0)],
       << NewEdge("dog", "animal", 1440, "general", 0),
          NewEdge("animal", "living", 1440, "general", 0),
          NewEdge("living", "entity", 1440, "general", 0) >> >>

LoadableGraphs == {EmptyGraph, StarGraph, ChainGraph}

\* ---- the calls of the query specification
QueryCreates == {<<"dog", "animal", 1440>>, <<"dog", "animal", 480>>,
                 <<"dog", "pet", 1120>>, <<"pet", "animal", 1120>>,
                 <<"dog", "living", 480>>}
SeedLists == {<<"dog">>, <<"dog", "pet">>, <<"cat", "dog">>, <<"hub">>}
PathQueries == {<<"dog", "entity">>, <<"dog", "living">>, <<"dog", "cat">>,
                <<"pet", "pet">>}
MaxLengths == {1, 2, 3}

QueryCreate ==
    \E c \in QueryCreates : CreateAssociation(c[1], c[2], c[3], "general")

\* AssociationNetwork.activate_concepts(concepts): every seed is bumped by
\* the first loop and again by get_associations
ActivateConcepts(concepts) ==
    /\ Call
    /\ g_nodes' = [c \in DOMAIN g_nodes |->
                     activate_concept(g_nodes, c,
                                      2 * Occurrences(concepts, c), now)[c]]
    /\ graph_last' = [op |-> "activate", concepts |-> concepts, at |-> now,
                      result |-> activate_concepts(g_nodes, g_edges,
                                                   concepts, now)]
    /\ UNCHANGED <<max_associations, g_edges, now>>
    /\ UNCHANGED notGraph

\* AssociationNetwork.find_path(start_concept, end_concept, max_length)
FindPath(start, end, max_length) ==
    /\ Call
    /\ LET Returned(r) == [op |-> "find_path", start |-> start, end |-> end,
                           max_length |-> max_length, at |-> now, result |-> r]
       IN IF ~(has_node(g_nodes, start) /\ has_node(g_nodes, end))
          THEN graph_last' = Returned(<<>>)
          ELSE LET shortest == ShortestPaths(g_edges, start, end, now)
               IN IF shortest = {}                      \* nx.NetworkXNoPath
                  THEN graph_last' = Returned(<<>>)
                  ELSE \E path \in shortest :
                          graph_last' = Returned(CheckedPath(path, max_length))
    /\ UNCHANGED <<max_associations, g_nodes, g_edges, now>>
    /\ UNCHANGED notGraph

\* a get_associations that stores the decayed strengths it computes
GetAssociations_StoringDecay(concept, max_results) ==
    /\ Call
    /\ g_nodes' = IF has_node(g_nodes, concept)
                  THEN activate_concept(g_nodes, concept, 1, now)
                  ELSE g_nodes
    /\ g_edges' = [i \in DOMAIN g_edges |->
                     IF i \in IncidentAt(g_edges, concept)
                     THEN [g_edges[i] EXCEPT
                             !.strength = apply_decay(g_edges[i], now),
                             !.last_reinforcement = now]
                     ELSE g_edges[i]]
    /\ graph_last' = [op |-> "get_associations", concept |-> concept,
                      at |-> now,
                      result |-> get_associations(g_nodes, g_edges, concept,
                                                  max_results, now)]
    /\ UNCHANGED <<max_associations, now>>
    /\ UNCHANGED notGraph

\* AssociationNetwork.get_associations(concept, max_results)
GetAssociations(concept, max_results) ==
    /\ Call
    /\ g_nodes' = IF has_node(g_nodes, concept)
                  THEN activate_concept(g_nodes, concept, 1, now)
                  ELSE g_nodes
    /\ graph_last' = [op |-> "get_associations", concept |-> concept,
                      at |-> now,
                      result |-> get_associations(g_nodes, g_edges, concept,
                                                  max_results, now)]
    /\ UNCHANGED <<max_associations, g_edges, now>>
    /\ UNCHANGED notGraph

QueryActivate == \E concepts \in SeedLists : ActivateConcepts(concepts)
QueryFindPath ==
    \E q \in PathQueries, m \in MaxLengths : FindPath(q[1], q[2], m)

\* AssociationNetwork.__init__: the graph is the one _load_associations finds
GraphQueryInit ==
    /\ max_associations = DefaultMaxAssociations
    /\ \E g \in LoadableGraphs : g_nodes = g[1] /\ g_edges = g[2]
    /\ graph_last = [op |-> "init", a |-> None, b |-> None, removed |-> 0]

-----------------------------------------------------------------------------
(* MemoryLayer.process  (src/layers/memory/memory_layer.py)                *)
(* One turn, as the sequence of subsystem calls it makes.  Any call into a *)
(* subsystem may raise; what process() does about it is the try/except of  *)
(* lines 23-66.                                                            *)

\* what a context can hold: a semantic map (with or without relationships
\* or same-level concept pairs, with or without a concept of confidence
\* > 0.5) and a processed text (with or without keywords, with |sentiment|
\* above 0.3 or not)
Percepts ==
    {p \in [semantic_map : BOOLEAN, relationships : BOOLEAN,
            confident : BOOLEAN, processed_text : BOOLEAN,
            keywords : BOOLEAN, emotional : BOOLEAN] :
        /\ (p.relationships \/ p.confident) => p.semantic_map
        /\ (p.keywords \/ p.emotional) => p.processed_text}

\* the steps of process(), in the order of lines 29-48
TurnSteps == <<"store_in_working_memory", "create_episode",
               "update_associations", "retrieve_relevant_memories",
               "activate_concepts", "build_result">>

\* the subsystem calls _get_memory_stats makes
MemoryStatsCalls == <<"cache.get_stats", "episodic.get_stats", "graph.get_stats">>

\* the subsystem calls each step makes for percept p, in order
StepCalls(step, p) ==
    CASE step = "store_in_working_memory" -> <<"cache.store">>
      [] step = "create_episode" ->
            <<"cache.get_current_context", "episodic.store_episode">>
      [] step = "update_associations" ->
            IF p.semantic_map /\ p.relationships
            THEN <<"graph.create_association">> ELSE <<>>
      [] step = "retrieve_relevant_memories" ->
            <<"cache.search">>
            \o (IF p.processed_text /\ p.keywords
                THEN <<"episodic.search_episodes">> ELSE <<>>)
            \o (IF p.processed_text /\ p.emotional
                THEN <<"episodic.search_episodes">> ELSE <<>>)
      [] step = "activate_concepts" ->
            IF p.semantic_map /\ p.confident
            THEN <<"graph.activate_concepts">> ELSE <<>>
      [] step = "build_result" ->
            <<"cache.get_current_context">> \o MemoryStatsCalls

\* the calls that can raise: those into the SQLite-backed store (sqlite3
\* errors, json.dumps of a payload that is not JSON) and into the graph
\* library; the cache's calls work on an in-memory dict and deque
Fallible ==
    {"episodic.store_episode", "episodic.search_episodes",
     "episodic.get_stats", "graph.create_association",
     "graph.activate_concepts", "graph.get_stats"}

\* the positions at which a sequence of calls can raise (0: nowhere)
RaisePoints(cs) == {0} \cup {k \in DOMAIN cs : cs[k] \in Fallible}

\* where a step that raised goes: the except clause of process()
OnException(step) == "handler"

\* the step after `step` when it did not raise
NextStep(step) ==
    LET i == CHOOSE k \in DOMAIN TurnSteps : TurnSteps[k] = step
    IN IF i < Len(TurnSteps) THEN TurnSteps[i + 1] ELSE "return_result"

\* process(context) is called
BeginTurn ==
    /\ turn_pc = "idle"
    /\ percept' \in Percepts
    /\ turn_pc' = TurnSteps[1]
    /\ turn_log' = <<>>
    /\ turn_raised' = <<>>
    /\ outcome' = "none"
    /\ UNCHANGED notLayer

\* one step of the try block: its calls run in order until one raises (k is
\* the position of the call that raises, 0 when none does)
RunStep ==
    /\ turn_pc \in Range(TurnSteps)
    /\ LET cs == StepCalls(turn_pc, percept) IN
       \E k \in RaisePoints(cs) :
          IF k = 0
          THEN /\ turn_log' = turn_log \o cs
               /\ turn_raised' = turn_raised
               /\ turn_pc' = NextStep(turn_pc)
          ELSE /\ turn_log' = turn_log \o SubSeq(cs, 1, k)
               /\ turn_raised' = Append(turn_raised, cs[k])
               /\ turn_pc' = OnException(turn_pc)
    /\ UNCHANGED <<percept, outcome>>
    /\ UNCHANGED notLayer

\* `return result` at the end of the try block
ReturnResult ==
    /\ turn_pc = "return_result"
    /\ outcome' = "result"
    /\ turn_pc' = "done"
    /\ UNCHANGED <<percept, turn_log, turn_raised>>
    /\ UNCHANGED notLayer

\* the except clause: log, then return {'error': ..., 'memory_stats':
\* self._get_memory_stats()} -- a call of _get_memory_stats outside any try
Handler ==
    /\ turn_pc = "handler"
    /\ LET cs == MemoryStatsCalls IN
       \E k \in RaisePoints(cs) :
          IF k = 0
          THEN /\ turn_log' = turn_log \o cs
               /\ turn_raised' = turn_raised
               /\ outcome' = "error_result"
          ELSE /\ turn_log' = turn_log \o SubSeq(cs, 1, k)
               /\ turn_raised' = Append(turn_raised, cs[k])
               /\ outcome' = "raised"
    /\ turn_pc' = "done"
    /\ UNCHANGED percept
    /\ UNCHANGED notLayer

\* the caller goes on to the next turn
EndTurn ==
    /\ turn_pc = "done"
    /\ turn_pc' = "idle"
    /\ UNCHANGED <<percept, turn_log, turn_raised, outcome>>
    /\ UNCHANGED notLayer

-----------------------------------------------------------------------------
(* Threads in the AssociationNetwork.  AssociationNetwork holds no lock:   *)
(* overlapping process() turns (MemoryLayer._update_associations) and the  *)
(* consolidation (MemoryManager._reinforce_pattern_associations, then      *)
(* _cleanup_weak_associations) run create_association on the shared graph  *)
(* statement by statement.  A thread can be preempted between statements   *)
(* that call into the graph library; each statement is one step here.      *)

\* request threads, each running one create_association of a turn
RecordThreads == 1..NumThreads

\* the background scheduler running _perform_memory_consolidation
Consolidator == 0

GraphThreads == RecordThreads \cup {Consolidator}

\* the pair all of them associate
SharedPair == <<"dog", "animal">>

\* the statements of create_association a thread can be at
InsideCreate == {"has_edge", "read_strength", "write_edge", "add_edge", "cleanup"}

\* a thread enters create_association: lines 27-37 add the missing nodes
ThEnter(t) ==
    /\ gth_pc[t] = "start"
    /\ \E st \in Strengths :
          gth_local' = [gth_local EXCEPT ![t] =
                           [strength |-> st, current_strength |-> 0]]
    /\ g_nodes' = add_node(add_node(g_nodes, SharedPair[1], now),
                           SharedPair[2], now)
    /\ gth_pc' = [gth_pc EXCEPT ![t] = "has_edge"]
    /\ UNCHANGED <<now, max_associations, g_edges, graph_last>>
    /\ UNCHANGED notGraphThreads

\* line 40: if self.graph.has_edge(concept1, concept2)
ThHasEdge(t) ==
    /\ gth_pc[t] = "has_edge"
    /\ gth_pc' = [gth_pc EXCEPT ![t] =
                     IF has_edge(g_edges, SharedPair[1], SharedPair[2])
                     THEN "read_strength" ELSE "add_edge"]
    /\ UNCHANGED <<now, gth_local, graphVars>>
    /\ UNCHANGED notGraphThreads

\* line 42: current_strength = self.graph[concept1][concept2]['strength']
ThReadStrength(t) ==
    /\ gth_pc[t] = "read_strength"
    /\ LET at == EdgeAt(g_edges, SharedPair[1], SharedPair[2]) IN
       /\ at # {}
       /\ gth_local' = [gth_local EXCEPT ![t].current_strength =
                           g_edges[CHOOSE i \in at : TRUE].strength]
    /\ gth_pc' = [gth_pc EXCEPT ![t] = "write_edge"]
    /\ UNCHANGED <<now, graphVars>>
    /\ UNCHANGED notGraphThreads

\* lines 44-47: the new strength from the value read, last_reinforcement,
\* reinforcement_count += 1
ThWriteEdge(t) ==
    /\ gth_pc[t] = "write_edge"
    /\ LET at == EdgeAt(g_edges, SharedPair[1], SharedPair[2]) IN
       /\ at # {}
       /\ g_edges' = [i \in DOMAIN g_edges |->
                        IF i \in at
                        THEN [g_edges[i] EXCEPT
                                !.strength = (gth_local[t].current_strength
                                              + gth_local[t].strength) \div 2,
                                !.last_reinforcement = now,
                                !.reinforcement_count = @ + 1]
                        ELSE g_edges[i]]
    /\ gth_pc' = [gth_pc EXCEPT ![t] = "cleanup"]
    /\ UNCHANGED <<now, gth_local, max_associations, g_nodes, graph_last>>
    /\ UNCHANGED notGraphThreads

\* lines 50-55: graph.add_edge(...), which on an edge that exists by now
\* overwrites its attributes (reinforcement_count=1 included)
ThAddEdge(t) ==
    /\ gth_pc[t] = "add_edge"
    /\ LET at == EdgeAt(g_edges, SharedPair[1], SharedPair[2])
           e == NewEdge(SharedPair[1], SharedPair[2],
                        gth_local[t].strength, "general", now)
       IN g_edges' = IF at # {}
                     THEN [i \in DOMAIN g_edges |->
                             IF i \in at
                             THEN [e EXCEPT !.a = g_edges[i].a,
                                            !.b = g_edges[i].b]
                             ELSE g_edges[i]]
                     ELSE g_edges \o <<e>>
    /\ gth_pc' = [gth_pc EXCEPT ![t] = "cleanup"]
    /\ UNCHANGED <<now, gth_local, max_associations, g_nodes, graph_last>>
    /\ UNCHANGED notGraphThreads

\* line 58: self._cleanup_weak_associations(); the consolidator then runs
\* the pruning pass of memory_manager.py line 114 as well
ThCleanup(t) ==
    /\ gth_pc[t] = "cleanup"
    /\ LET cleaned == CleanupWeakAssociations(g_nodes, g_edges,
                                              max_associations, now)
       IN /\ g_nodes' = cleaned[1]
          /\ g_edges' = cleaned[2]
    /\ gth_pc' = [gth_pc EXCEPT ![t] = "done"]
    /\ UNCHANGED <<now, gth_local, max_associations, graph_last>>
    /\ UNCHANGED notGraphThreads

GraphThreadsTick ==
    Tick /\ UNCHANGED <<graphVars, gthVars, cacheVars, epiVars, layerVars, ethVars, snapVars, recallVars, mgrVars>>

GraphThreadsIdle ==
    /\ gth_pc = [t \in GraphThreads |-> "start"]
    /\ gth_local = [t \in GraphThreads |->
                      [strength |-> 0, current_strength |-> 0]]

-----------------------------------------------------------------------------
(* Threads in the EpisodicMemory.  self._lock is a threading.Lock (not     *)
(* reentrant).  Every public method takes it in a `with` block, which      *)
(* releases it on every exit; store_episode releases it after the INSERT    *)
(* and runs _cleanup_if_needed outside it, where SELECT COUNT and the    *)
(* DELETE are two statements on the connection.                             *)

EpiThreads == 1..NumThreads

EpiOps == {"store", "retrieve", "search", "recent", "stats"}

\* the episodes the threads store and ask for
ThreadEpisodeIds == {"e1", "e2"}

\* what the threads store
ThreadInput == CHOOSE in \in EpisodeInputs : in.importance = 8 /\ in.tags # <<>>
    /\ in.content = "hello"

\* an _update_access_stats that takes the lock its caller holds
UpdateStatsTakesLock_Nested == TRUE

\* whether _update_access_stats takes self._lock (it does not: it opens its
\* own connection while the caller holds the lock)
UpdateStatsTakesLock == FALSE

\* a thread outside the store
NoCall == [op |-> "none", id |-> "e1"]
NoLocals == [count |-> 0, seen |-> 0]

\* `with self._lock:` can be entered
LockFree == epi_lock = <<>>

\* a thread calls a method of the store
EthBegin(t) ==
    /\ eth_pc[t] = "idle"
    /\ Call
    /\ \E op \in EpiOps, id \in ThreadEpisodeIds :
          /\ (op \notin {"store", "retrieve"}) => id = "e1"
          /\ eth_call' = [eth_call EXCEPT ![t] = [op |-> op, id |-> id]]
    /\ eth_pc' = [eth_pc EXCEPT ![t] = "acquire"]
    /\ UNCHANGED <<epi_lock, eth_local, epiVars>>
    /\ UNCHANGED notEpiThreads

\* with self._lock:
EthAcquire(t) ==
    /\ eth_pc[t] = "acquire"
    /\ LockFree
    /\ epi_lock' = <<t>>
    /\ eth_pc' = [eth_pc EXCEPT ![t] = "locked"]
    /\ UNCHANGED <<calls, eth_call, eth_local, epiVars>>
    /\ UNCHANGED notEpiThreads

\* the statements under the lock, up to the first _update_access_stats or to
\* the end of the `with` block
EthBody(t) ==
    /\ eth_pc[t] = "locked"
    /\ LET op == eth_call[t].op
           id == eth_call[t].id
           n == Len(episodes)
       IN CASE op = "store" ->
                 /\ episodes' = InsertOrReplace(episodes,
                                    EpisodeRow(id, ThreadInput, now))
                 /\ epi_lock' = <<>>
                 /\ eth_pc' = [eth_pc EXCEPT ![t] = "cleanup_count"]
                 /\ UNCHANGED <<eth_call, eth_local>>
            [] op = "retrieve" ->
                 /\ episodes' = episodes
                 /\ IF \E i \in DOMAIN episodes : episodes[i].id = id
                    THEN /\ epi_lock' = epi_lock
                         /\ eth_pc' = [eth_pc EXCEPT ![t] = "update_stats"]
                         /\ UNCHANGED eth_call
                    ELSE /\ epi_lock' = <<>>
                         /\ eth_pc' = [eth_pc EXCEPT ![t] = "idle"]
                         /\ eth_call' = [eth_call EXCEPT ![t] = NoCall]
                 /\ UNCHANGED eth_local
            [] op = "search" ->
                 /\ episodes' = episodes
                 /\ eth_local' = [eth_local EXCEPT ![t].seen = Min(n, SearchLimit)]
                 /\ IF n > 0
                    THEN /\ epi_lock' = epi_lock
                         /\ eth_pc' = [eth_pc EXCEPT ![t] = "update_stats"]
                    ELSE /\ epi_lock' = <<>>
                         /\ eth_pc' = [eth_pc EXCEPT ![t] = "return"]
                 /\ UNCHANGED eth_call
            [] op = "recent" ->
                 /\ episodes' = episodes
                 /\ eth_local' = [eth_local EXCEPT ![t].seen = Min(n, RecentLimit)]
                 /\ epi_lock' = <<>>
                 /\ eth_pc' = [eth_pc EXCEPT ![t] = "return"]
                 /\ UNCHANGED eth_call
            [] op = "stats" ->
                 /\ episodes' = episodes
                 /\ eth_local' = [eth_local EXCEPT ![t].seen = n]
                 /\ epi_lock' = <<>>
                 /\ eth_pc' = [eth_pc EXCEPT ![t] = "return"]
                 /\ UNCHANGED eth_call
    /\ UNCHANGED <<calls, max_episodes, epi_last>>
    /\ UNCHANGED notEpiThreads

\* _update_access_stats for the row(s) read, then the end of the `with` block
\* (retrieve_episode returns the one episode, search_episodes the list)
EthUpdateStats(t) ==
    /\ eth_pc[t] = "update_stats"
    /\ UpdateStatsTakesLock => LockFree
    /\ IF eth_call[t].op = "retrieve"
       THEN /\ episodes' = UpdateAccessStats(episodes, eth_call[t].id, now)
            /\ eth_pc' = [eth_pc EXCEPT ![t] = "idle"]
            /\ eth_call' = [eth_call EXCEPT ![t] = NoCall]
       ELSE /\ episodes' = [i \in DOMAIN episodes |->
                              [episodes[i] EXCEPT !.access_count = @ + 1,
                                                  !.last_access = now]]
            /\ eth_pc' = [eth_pc EXCEPT ![t] = "return"]
            /\ UNCHANGED eth_call
    /\ epi_lock' = <<>>
    /\ UNCHANGED <<calls, eth_local, max_episodes, epi_last>>
    /\ UNCHANGED notEpiThreads

\* _cleanup_if_needed, first statement: SELECT COUNT FROM episodes;
\* store_episode returns when the count is within the limit
EthCleanupCount(t) ==
    /\ eth_pc[t] = "cleanup_count"
    /\ IF OverLimit(Len(episodes), max_episodes)
       THEN /\ eth_local' = [eth_local EXCEPT ![t].count = Len(episodes)]
            /\ eth_pc' = [eth_pc EXCEPT ![t] = "cleanup_delete"]
            /\ UNCHANGED eth_call
       ELSE /\ eth_pc' = [eth_pc EXCEPT ![t] = "idle"]
            /\ eth_call' = [eth_call EXCEPT ![t] = NoCall]
            /\ UNCHANGED eth_local
    /\ UNCHANGED <<calls, epi_lock, epiVars>>
    /\ UNCHANGED notEpiThreads

\* _cleanup_if_needed, second statement: the DELETE of
\* count - max_episodes + 100 rows; store_episode returns
EthCleanupDelete(t) ==
    /\ eth_pc[t] = "cleanup_delete"
    /\ episodes' = DeleteLeastImportant(episodes,
                       eth_local[t].count - max_episodes + CleanupMargin)
    /\ eth_pc' = [eth_pc EXCEPT ![t] = "idle"]
    /\ eth_call' = [eth_call EXCEPT ![t] = NoCall]
    /\ eth_local' = [eth_local EXCEPT ![t] = NoLocals]
    /\ UNCHANGED <<calls, epi_lock, max_episodes, epi_last>>
    /\ UNCHANGED notEpiThreads

\* a read returns what it saw to its caller; its locals are gone
EthReturn(t) ==
    /\ eth_pc[t] = "return"
    /\ eth_pc' = [eth_pc EXCEPT ![t] = "idle"]
    /\ eth_call' = [eth_call EXCEPT ![t] = NoCall]
    /\ eth_local' = [eth_local EXCEPT ![t] = NoLocals]
    /\ UNCHANGED <<calls, epi_lock, epiVars>>
    /\ UNCHANGED notEpiThreads

\* the steps of a call in progress
EthStep(t) ==
    \/ EthAcquire(t)
    \/ EthBody(t)
    \/ EthUpdateStats(t)
    \/ EthCleanupCount(t)
    \/ EthCleanupDelete(t)
    \/ EthReturn(t)

EpiThreadsIdle ==
    /\ epi_lock = <<>>
    /\ eth_pc = [t \in EpiThreads |-> "idle"]
    /\ eth_call = [t \in EpiThreads |-> NoCall]
    /\ eth_local = [t \in EpiThreads |-> NoLocals]

-----------------------------------------------------------------------------
(* The snapshot of the AssociationNetwork: save_associations writes the    *)
(* pickle of the graph over the file at save_path, _load_associations      *)
(* reads it back when a process starts.  The process can crash at any      *)
(* point; what is on disk then is what had been written so far.            *)

\* the file does not exist
NoFile == <<>>

\* a dump that writes the nodes and leaves the edges out
Pickle_NodesOnly(nodes, edges) == <<"PROTO", nodes, <<>>, "STOP">>

\* pickle.dump(graph): the stream of the graph, which ends with a STOP opcode
Pickle(nodes, edges) == <<"PROTO", nodes, edges, "STOP">>

\* pickle.load(f) knows a complete stream by its STOP opcode; anything
\* shorter raises (EOFError, UnpicklingError)
Unpickles(stream) == Len(stream) = 4 /\ stream[4] = "STOP"

\* _load_associations: <<nodes, edges>> of self.graph after __init__
LoadAssociations(file) ==
    IF file = NoFile THEN EmptyGraph                  \* no file: nx.Graph()
    ELSE LET stream == file[1]
         IN IF Unpickles(stream) THEN <<stream[2], stream[3]>>
            ELSE EmptyGraph                           \* except: nx.Graph()

\* the pairs the process associates between saves
SnapshotPairs == {<<"dog", "animal">>, <<"dog", "pet">>}

\* create_association by the running process
SnapCreate ==
    /\ snap_pc = "running"
    /\ \E p \in SnapshotPairs, st \in Strengths :
          CreateAssociation(p[1], p[2], st, "general")

\* save_associations, line 226: open(save_path, 'wb') creates the file or
\* truncates it to length 0
SaveOpen ==
    /\ snap_pc = "running"
    /\ Call
    /\ snap_file' = << <<>> >>
    /\ snap_pc' = "saving"
    /\ UNCHANGED <<now, snap_saved, graphVars>>
    /\ UNCHANGED <<cacheVars, epiVars, layerVars, gthVars, ethVars, recallVars, mgrVars>>

\* save_associations, line 227: pickle.dump writes the next part of the
\* stream; after the last part the `with` block closes the file
SaveDump ==
    /\ snap_pc = "saving"
    /\ LET stream == Pickle(g_nodes, g_edges)
           written == Len(snap_file[1]) + 1
       IN /\ snap_file' = << SubSeq(stream, 1, written) >>
          /\ IF written = Len(stream)
             THEN /\ snap_pc' = "running"
                  /\ snap_saved' = << <<g_nodes, g_edges>> >>
             ELSE /\ snap_pc' = "saving"
                  /\ snap_saved' = snap_saved
    /\ UNCHANGED <<now, calls, graphVars>>
    /\ UNCHANGED <<cacheVars, epiVars, layerVars, gthVars, ethVars, recallVars, mgrVars>>

\* the process dies: its memory is gone, the file is what it is
Crash ==
    /\ snap_pc \in {"running", "saving"}
    /\ snap_pc' = "crashed"
    /\ g_nodes' = EmptyGraph[1]
    /\ g_edges' = EmptyGraph[2]
    /\ graph_last' = [op |-> "crash", a |-> None, b |-> None, removed |-> 0]
    /\ UNCHANGED <<now, calls, max_associations, snap_file, snap_saved>>
    /\ UNCHANGED <<cacheVars, epiVars, layerVars, gthVars, ethVars, recallVars, mgrVars>>

\* a new process: AssociationNetwork.__init__ ends with _load_associations
Restart ==
    /\ snap_pc = "crashed"
    /\ snap_pc' = "running"
    /\ LET loaded == LoadAssociations(snap_file)
       IN /\ g_nodes' = loaded[1]
          /\ g_edges' = loaded[2]
    /\ graph_last' = [op |-> "load", a |-> None, b |-> None, removed |-> 0]
    /\ UNCHANGED <<now, calls, max_associations, snap_file, snap_saved>>
    /\ UNCHANGED <<cacheVars, epiVars, layerVars, gthVars, ethVars, recallVars, mgrVars>>

SnapshotIdle ==
    /\ snap_file = NoFile
    /\ snap_pc = "running"
    /\ snap_saved = <<>>

-----------------------------------------------------------------------------
(* MemoryLayer._retrieve_relevant_memories: up to 3 working-memory hits    *)
(* for the input, up to 2 episodes for each of the first 3 keywords, up to *)
(* 2 episodes of similar valence, sorted by relevance and cut to 10.       *)
(* Matching is on text, so each string used here has its characters.       *)

\* working_size, default 7
DefaultCapacity == 7

Chars(str) ==
    CASE str = "dog" -> <<"d", "o", "g">>
      [] str = "cat" -> <<"c", "a", "t">>
      [] str = "hot" -> <<"h", "o", "t">>
      [] str = "hotdog" -> <<"h", "o", "t", "d", "o", "g">>
      [] str = "dog cat" -> <<"d", "o", "g", " ", "c", "a", "t">>
      [] str = "hotdog cat" ->
            <<"h", "o", "t", "d", "o", "g", " ", "c", "a", "t">>
      [] str = "dog dog" -> <<"d", "o", "g", " ", "d", "o", "g">>
      [] str = "user_input_0" ->
            <<"u", "s", "e", "r", "_", "i", "n", "p", "u", "t", "_", "0">>
      [] str = "user_input_1" ->
            <<"u", "s", "e", "r", "_", "i", "n", "p", "u", "t", "_", "1">>
      [] str = "user_input_2" ->
            <<"u", "s", "e", "r", "_", "i", "n", "p", "u", "t", "_", "2">>
      [] str = "concept_dog" ->
            <<"c", "o", "n", "c", "e", "p", "t", "_", "d", "o", "g">>
      [] str = "concept_cat" ->
            <<"c", "o", "n", "c", "e", "p", "t", "_", "c", "a", "t">>
      [] str = "concept_hotdog" ->
            <<"c", "o", "n", "c", "e", "p", "t", "_",
              "h", "o", "t", "d", "o", "g">>
      [] str = "s1" -> <<"s", "1">>

\* str.lower()
LowerText(text) == [i \in DOMAIN text |-> Lower(text[i])]

\* q in text
Contains(text, q) ==
    \E i \in 0..(Len(text) - Len(q)) : SubSeq(text, i + 1, i + Len(q)) = q

RECURSIVE CountMatches(_, _)
\* text.count(q): occurrences that do not overlap, from the left
CountMatches(text, q) ==
    IF q = <<>> THEN Len(text) + 1
    ELSE IF Len(text) < Len(q) THEN 0
    ELSE IF SubSeq(text, 1, Len(q)) = q
         THEN 1 + CountMatches(SubSeq(text, Len(q) + 1, Len(text)), q)
         ELSE CountMatches(Tail(text), q)

\* WorkingMemory._calculate_relevance, in tenths
calculate_relevance(query, content, key) ==
    LET query_lower == LowerText(query) IN
    IF query_lower = LowerText(key) THEN 10
    ELSE IF Contains(LowerText(key), query_lower) THEN 8
    ELSE IF Contains(content, query_lower)
         THEN Min(CountMatches(content, query_lower) * 2, 7)
         ELSE 0

\* the first max_results of a list sorted by relevance, highest first, by
\* a stable sort
SortedByRelevance(list, max_results) ==
    LET rank == [i \in DOMAIN list |->
                   Cardinality({j \in DOMAIN list :
                       \/ list[j].relevance > list[i].relevance
                       \/ list[j].relevance = list[i].relevance /\ j < i})]
        sorted == [k \in DOMAIN list |->
                     list[CHOOSE i \in DOMAIN list : rank[i] = k - 1]]
    IN SubSeq(sorted, 1, Min(Len(list), max_results))

RECURSIVE SearchScan(_, _, _, _)
\* the loop of WorkingMemory.search over the items, in the order they
\* were first stored
SearchScan(dq, map, query, i) ==
    IF i > Len(dq) THEN <<>>
    ELSE LET key == dq[i]
             content_str == LowerText(Chars(map[key].content))
             query_lower == LowerText(query)
         IN (IF \/ Contains(content_str, query_lower)
                \/ Contains(LowerText(Chars(key)), query_lower)
             THEN << [key |-> key,
                      relevance |-> calculate_relevance(query, content_str,
                                                        Chars(key)),
                      importance |-> map[key].importance] >>
             ELSE <<>>)
            \o SearchScan(dq, map, query, i + 1)

\* WorkingMemory.search(query, max_results)
search(dq, map, query, max_results) ==
    SortedByRelevance(SearchScan(dq, map, query, 1), max_results)

\* json.dumps of the content dict of an episode: its user_input entry
ContentText(user_input) ==
    <<"{", "\"", "u", "s", "e", "r", "_", "i", "n", "p", "u", "t", "\"",
      ":", " ", "\"">> \o JsonString(Chars(user_input)) \o <<"\"", "}">>

\* json.dumps of the context dict of an episode: its session entry
ContextText(session) ==
    <<"{", "\"", "s", "e", "s", "s", "i", "o", "n", "\"",
      ":", " ", "\"">> \o JsonString(Chars(session)) \o <<"\"", "}">>

\* the rows with content LIKE '%query%' OR context LIKE '%query%'
QueryRows(table, query) ==
    {i \in DOMAIN table :
        \E text \in {ContentText(JsonLoads(table[i].content)),
                     ContextText(JsonLoads(table[i].context))},
           pattern \in {<<"%">> \o Chars(query) \o <<"%">>} :
            Like(pattern, text)}

\* the rows with emotional_valence BETWEEN low AND high
ValenceRows(table, low, high) ==
    {i \in DOMAIN table :
        table[i].emotional_valence >= low /\ table[i].emotional_valence <= high}

\* search_episodes(query=...) or (emotional_range=...), max_results=2
RecallSearchLimit == 2
RecallKeywords == 3
RecallWorkingLimit == 3
RecallLimit == 10
\* abs(sentiment) > 0.3, and the range sentiment -/+ 0.2, in tenths
EmotionalThreshold == 3
EmotionalRadius == 2

\* keywords[:3]
FirstKeywords(p) == SubSeq(p.keywords, 1, Min(Len(p.keywords), RecallKeywords))

\* the rows the k-th search_episodes call of a recall returns, in order;
\* the calls are one per keyword and then the one by valence
RecallSelected(table, p, k) ==
    IF ~p.processed_text THEN <<>>
    ELSE IF k <= Len(FirstKeywords(p))
    THEN SelectedRows(table, QueryRows(table, FirstKeywords(p)[k]),
                      RecallSearchLimit)
    ELSE IF Abs(p.sentiment) > EmotionalThreshold
    THEN SelectedRows(table,
                      ValenceRows(table, p.sentiment - EmotionalRadius,
                                  p.sentiment + EmotionalRadius),
                      RecallSearchLimit)
    ELSE <<>>

RECURSIVE RecallSearches(_, _, _)
\* what the search_episodes calls k, k + 1, ... return
RecallSearches(table, p, k) ==
    IF k > RecallKeywords + 1 THEN <<>>
    ELSE <<RecallSelected(table, p, k)>> \o RecallSearches(table, p, k + 1)

RECURSIVE EpisodeEntries(_, _, _, _)
\* the entries appended for the search_episodes calls k, k + 1, ...
EpisodeEntries(table, p, k, selected) ==
    IF k > RecallKeywords + 1 THEN <<>>
    ELSE [n \in DOMAIN selected[k] |->
            [source |-> "episodic_memory",
             type |-> IF k <= Len(FirstKeywords(p)) THEN "keyword_match"
                      ELSE "emotional_similarity",
             id |-> table[selected[k][n]].id,
             relevance |-> table[selected[k][n]].importance]]
         \o EpisodeEntries(table, p, k + 1, selected)

\* relevant_memories before the sort
Gathered(dq, map, table, user_input, p, selected) ==
    LET working_memory_results ==
            search(dq, map, Chars(user_input), RecallWorkingLimit)
    IN [n \in DOMAIN working_memory_results |->
          [source |-> "working_memory", type |-> "recent_context",
           id |-> working_memory_results[n].key,
           relevance |-> working_memory_results[n].relevance]]
       \o EpisodeEntries(table, p, 1, selected)

\* list[:limit], and a slice that keeps one entry more
CutTo_OneMore(list, limit) == SubSeq(list, 1, Min(Len(list), limit + 1))

CutTo(list, limit) == SubSeq(list, 1, Min(Len(list), limit))

\* MemoryLayer._retrieve_relevant_memories(user_input, perception_result)
Recall(user_input, p) ==
    /\ Call
    /\ \E selected \in {RecallSearches(episodes, p, 1)} :
       \E gathered \in {Gathered(items, item_map, episodes, user_input, p,
                                 selected)} :
          /\ recall_last' =
                [op |-> "recall", user_input |-> user_input, percept |-> p,
                 at |-> now, gathered |-> gathered,
                 result |-> CutTo(SortedByRelevance(gathered, Len(gathered)),
                                  RecallLimit)]
          /\ episodes' = [i \in DOMAIN episodes |->
                            LET hits == Cardinality({k \in DOMAIN selected :
                                                   i \in Range(selected[k])})
                            IN IF hits > 0
                               THEN [episodes[i] EXCEPT
                                       !.access_count = @ + hits,
                                       !.last_access = now]
                               ELSE episodes[i]]
    /\ UNCHANGED <<now, cacheVars, max_episodes, epi_last, graphVars>>
    /\ UNCHANGED <<layerVars, gthVars, ethVars, snapVars, mgrVars>>

\* semantic_map.concepts: name and confidence (tenths)
RecallPercepts ==
    { [processed_text |-> TRUE, keywords |-> <<"dog", "cat", "hot", "s1">>,
       sentiment |-> 5,
       concepts |-> << [name |-> "dog", confidence |-> 9] >>],
      [processed_text |-> TRUE, keywords |-> <<"dog">>, sentiment |-> 0,
       concepts |-> << [name |-> "dog", confidence |-> 9],
                       [name |-> "animal", confidence |-> 3] >>],
      [processed_text |-> FALSE, keywords |-> <<>>, sentiment |-> 0,
       concepts |-> <<>>] }

RecallInputs == {"dog", "cat"}

\* the working memory after a turn has stored its input and two concepts
\* (MemoryLayer._store_in_working_memory) at time 0
OneTurnItems == <<"user_input_0", "concept_dog", "concept_hotdog">>
OneTurnItemMap ==
    [key \in Range(OneTurnItems) |->
        CASE key = "user_input_0" -> MemoryItem("dog dog", 0, 8)
          [] key = "concept_dog" -> MemoryItem("dog", 0, 9)
          [] key = "concept_hotdog" -> MemoryItem("hotdog", 0, 7)]

RecallEpisode(id, user_input, valence, importance) ==
    EpisodeRow(id, [content |-> user_input, context |-> "s1",
                    emotional_valence |-> valence, importance |-> importance,
                    tags |-> <<>>], 0)

\* the episode table left on disk by four earlier turns
FourEpisodes ==
    << RecallEpisode("e1", "hotdog cat", 5, 9),
       RecallEpisode("e2", "hotdog cat", 4, 6),
       RecallEpisode("e3", "dog", -5, 7),
       RecallEpisode("e4", "cat", 0, 5) >>

RecallCacheStore == Store("user_input_1", "cat", 8)

RecallEpisodeStore ==
    \E valence \in {0, 5} :
        StoreEpisode("e5", [content |-> "dog", context |-> "s1",
                            emotional_valence |-> valence, importance |-> 8,
                            tags |-> <<>>])

RecallCall == \E user_input \in RecallInputs, p \in RecallPercepts :
                  Recall(user_input, p)

RecallTick == Tick /\ UNCHANGED <<cacheVars, epiVars, graphVars>>
                   /\ UNCHANGED <<layerVars, gthVars, ethVars, snapVars, mgrVars>>
                   /\ UNCHANGED recallVars

NoRecall == [op |-> "init", user_input |-> "", percept |-> <<>>, at |-> 0,
             gathered |-> <<>>, result |-> <<>>]

RecallIdle == recall_last = NoRecall

-----------------------------------------------------------------------------
(* MemoryManager  (src/layers/memory/memory_manager.py)                    *)
(* trigger_consolidation counts its calls and runs                         *)
(* _perform_memory_consolidation when the count reaches the threshold.     *)
(* The run is one thread going through its calls in order: the recent      *)
(* episodes, one create_association per pair of concepts of each pattern,  *)
(* the cleanup, the save.  The episode query and the save can raise, and   *)
(* nothing between them and the caller of trigger_consolidation catches;   *)
(* no other call is made on the manager while a run is under way.  The     *)
(* content of an episode is here the list of concept names of its          *)
(* semantic_map.                                                            *)

MaxThreshold == 2

\* get_recent_episodes(count=50), a tag is a pattern from 3 episodes on,
\* and strength * 0.5 in units of 1/1600
RecentCount == 50
PatternMinimum == 3
HalfStrength == 800

\* ORDER BY timestamp DESC (rows that tie: rowid order)
MoreRecent(table, i, j) ==
    \/ table[i].timestamp > table[j].timestamp
    \/ table[i].timestamp = table[j].timestamp /\ i < j

\* a get_recent_episodes that returns every row of the table
RecentRows_All(table, count) ==
    [k \in DOMAIN table |->
       CHOOSE i \in DOMAIN table :
          Cardinality({j \in DOMAIN table : MoreRecent(table, j, i)}) = k - 1]

\* get_recent_episodes(count): positions of the rows returned, in order
RecentRows(table, count) ==
    LET rank == [i \in DOMAIN table |->
                   Cardinality({j \in DOMAIN table : MoreRecent(table, j, i)})]
        ordered == [k \in DOMAIN table |->
                      CHOOSE i \in DOMAIN table : rank[i] = k - 1]
    IN SubSeq(ordered, 1, Min(Len(table), count))

RECURSIVE TagOccurrences(_, _, _)
\* the loops of lines 126-130: one entry for each tag of each episode
TagOccurrences(table, recent, k) ==
    IF k > Len(recent) THEN <<>>
    ELSE [n \in DOMAIN JsonLoads(table[recent[k]].tags) |->
            [tag |-> JsonLoads(table[recent[k]].tags)[n], row |-> recent[k]]]
         \o TagOccurrences(table, recent, k + 1)

\* tag_groups[tag]: the rows appended under the tag, in order
TagGroup(occurrences, tag) ==
    SelectSeq(occurrences, LAMBDA o : o.tag = tag)

\* _analyze_episode_patterns: the patterns, in the order the tags were
\* first met
AnalyzeEpisodePatterns(table, recent) ==
    LET occurrences == TagOccurrences(table, recent, 1)
        firsts == {n \in DOMAIN occurrences :
                     \A m \in 1..(n - 1) : occurrences[m].tag # occurrences[n].tag}
        frequent == {n \in firsts :
                       Len(TagGroup(occurrences, occurrences[n].tag))
                           >= PatternMinimum}
        ordered == [k \in 1..Cardinality(frequent) |->
                      CHOOSE n \in frequent :
                          Cardinality({m \in frequent : m < n}) = k - 1]
    IN [k \in 1..Cardinality(frequent) |->
          LET group == TagGroup(occurrences, occurrences[ordered[k]].tag)
          IN [tag |-> occurrences[ordered[k]].tag,
              episodes |-> [n \in DOMAIN group |-> group[n].row],
              strength |-> (Len(group) * ActivationOne) \div Len(recent)]]

RECURSIVE PatternConcepts(_, _, _)
\* lines 152-157: the concept names of the pattern's episodes, in order
PatternConcepts(table, rows, k) ==
    IF k > Len(rows) THEN <<>>
    ELSE JsonLoads(table[rows[k]].content)
         \o PatternConcepts(table, rows, k + 1)

RECURSIVE PairsFrom(_, _, _, _)
\* lines 160-166: concept i with every concept after it, for i, i + 1, ...
PairsFrom(concepts, i, strength, tag) ==
    IF i > Len(concepts) THEN <<>>
    ELSE [j \in 1..(Len(concepts) - i) |->
            [a |-> concepts[i], b |-> concepts[i + j],
             strength |-> strength, tag |-> tag]]
         \o PairsFrom(concepts, i + 1, strength, tag)

RECURSIVE PatternCreates(_, _, _)
\* the create_association calls of the loop of lines 110-111, in order
PatternCreates(table, patterns, k) ==
    IF k > Len(patterns) THEN <<>>
    ELSE PairsFrom(PatternConcepts(table, patterns[k].episodes, 1), 1,
                   (patterns[k].strength * HalfStrength) \div ActivationOne,
                   patterns[k].tag)
         \o PatternCreates(table, patterns, k + 1)

\* f'pattern_{tag}'
PatternType(tag) ==
    CASE tag = "greeting" -> "pattern_greeting"
      [] tag = "farewell" -> "pattern_farewell"
      [] tag = "pets" -> "pattern_pets"

\* create_association on the graph <<nodes, edges>>: the graph after it
create_association(nodes, edges, c1, c2, strength, type, limit, t) ==
    LET nodes2 == add_node(add_node(nodes, c1, t), c2, t)
        at == EdgeAt(edges, c1, c2)
        edges2 == IF at # {}
                  THEN [i \in DOMAIN edges |->
                          IF i \in at THEN Reinforce(edges[i], strength, t)
                          ELSE edges[i]]
                  ELSE edges \o <<NewEdge(c1, c2, strength, type, t)>>
    IN CleanupWeakAssociations(nodes2, edges2, limit, t)

NoTrigger == [op |-> "init", ran |-> FALSE, raised |-> FALSE, counter |-> 0]

\* trigger_consolidation up to the end of get_recent_episodes and
\* _analyze_episode_patterns; below the threshold it returns at once
TriggerConsolidation ==
    /\ mgr_pc = "idle"
    /\ Call
    /\ mgr_calls' = mgr_calls + 1
    /\ LET counter == consolidation_counter + 1 IN
       /\ consolidation_counter' = counter
       /\ IF counter >= consolidation_threshold
          THEN /\ mgr_runs' = mgr_runs + 1
               /\ \/ /\ mgr_pc' = "reinforce"
                     /\ \E creates \in {PatternCreates(episodes,
                               AnalyzeEpisodePatterns(episodes,
                                   RecentRows(episodes, RecentCount)), 1)} :
                           mgr_queue' = creates
                     /\ mgr_last' = [op |-> "trigger", ran |-> TRUE,
                                     raised |-> FALSE, counter |-> counter]
                  \/ /\ mgr_pc' = "idle"          \* the episode query raises
                     /\ mgr_queue' = <<>>
                     /\ mgr_last' = [op |-> "trigger", ran |-> TRUE,
                                     raised |-> TRUE, counter |-> counter]
          ELSE /\ mgr_runs' = mgr_runs
               /\ mgr_pc' = "idle"
               /\ mgr_queue' = <<>>
               /\ mgr_last' = [op |-> "trigger", ran |-> FALSE,
                               raised |-> FALSE, counter |-> counter]
    /\ UNCHANGED <<now, consolidation_threshold>>
    /\ UNCHANGED <<cacheVars, epiVars, graphVars, layerVars, gthVars, ethVars,
                   snapVars, recallVars>>

\* _reinforce_pattern_associations: the next create_association
MgrReinforce ==
    /\ mgr_pc = "reinforce"
    /\ mgr_queue # <<>>
    /\ LET c == Head(mgr_queue) IN
       \E g \in {create_association(g_nodes, g_edges, c.a, c.b, c.strength,
                                    PatternType(c.tag), max_associations,
                                    now)} :
          /\ g_nodes' = g[1]
          /\ g_edges' = g[2]
    /\ mgr_queue' = Tail(mgr_queue)
    /\ UNCHANGED <<now, calls, max_associations, graph_last>>
    /\ UNCHANGED <<consolidation_counter, consolidation_threshold, mgr_pc,
                   mgr_calls, mgr_runs, mgr_last>>
    /\ UNCHANGED <<cacheVars, epiVars, layerVars, gthVars, ethVars,
                   snapVars, recallVars>>

\* line 114: self.associations._cleanup_weak_associations()
MgrCleanup ==
    /\ mgr_pc = "reinforce"
    /\ mgr_queue = <<>>
    /\ \E g \in {CleanupWeakAssociations(g_nodes, g_edges, max_associations,
                                         now)} :
          /\ g_nodes' = g[1]
          /\ g_edges' = g[2]
    /\ mgr_pc' = "save"
    /\ UNCHANGED <<now, calls, max_associations, graph_last>>
    /\ UNCHANGED <<consolidation_counter, consolidation_threshold, mgr_queue,
                   mgr_calls, mgr_runs, mgr_last>>
    /\ UNCHANGED <<cacheVars, epiVars, layerVars, gthVars, ethVars,
                   snapVars, recallVars>>

\* line 117, self.associations.save_associations(), and line 98: the
\* counter goes back to 0 when the run returns; a save that raises (the
\* open, or the dump after the open has emptied the file) leaves
\* trigger_consolidation with the exception
MgrSave ==
    /\ mgr_pc = "save"
    /\ mgr_pc' = "idle"
    /\ \/ /\ snap_file' = << Pickle(g_nodes, g_edges) >>
          /\ snap_saved' = << <<g_nodes, g_edges>> >>
          /\ consolidation_counter' = 0
          /\ mgr_last' = mgr_last
       \/ /\ snap_file' \in {snap_file, << <<>> >>}
          /\ snap_saved' = snap_saved
          /\ consolidation_counter' = consolidation_counter
          /\ mgr_last' = [mgr_last EXCEPT !.raised = TRUE]
    /\ UNCHANGED <<now, calls, snap_pc, consolidation_threshold, mgr_queue,
                   mgr_calls, mgr_runs>>
    /\ UNCHANGED <<cacheVars, epiVars, graphVars, layerVars, gthVars, ethVars,
                   recallVars>>

\* episodes recorded between triggers: tags and concept names
MgrEpisodeStore ==
    /\ mgr_pc = "idle"
    /\ \E tags \in {<<"greeting">>, <<>>}, concepts \in {<<"dog">>, <<>>} :
          StoreEpisode("e5", [content |-> concepts, context |-> "s1",
                              emotional_valence |-> 0, importance |-> 8,
                              tags |-> tags])

MgrTick ==
    /\ mgr_pc = "idle"
    /\ Tick
    /\ UNCHANGED <<cacheVars, epiVars, graphVars, layerVars, gthVars, ethVars,
                   snapVars, recallVars, mgrVars>>

PatternEpisode(id, concepts, tags) ==
    EpisodeRow(id, [content |-> concepts, context |-> "s1",
                    emotional_valence |-> 0, importance |-> 5, tags |-> tags], 0)

\* the episode table left on disk by four earlier turns: three greetings
GreetingEpisodes ==
    << PatternEpisode("e1", <<"dog", "animal">>, <<"greeting">>),
       PatternEpisode("e2", <<"pet">>, <<"greeting", "pets">>),
       PatternEpisode("e3", <<>>, <<"farewell">>),
       PatternEpisode("e4", <<"dog">>, <<"greeting">>) >>

\* an episode table with one row more than get_recent_episodes(count=50)
\* returns: "greeting" on rows 1, 2 and on the last row, "pets" on rows 3-5
BusyEpisodes ==
    [i \in 1..(RecentCount + 1) |->
       PatternEpisode(ToString(i),
                      CASE i = 3 -> <<"dog">>
                        [] i = 4 -> <<"cat">>
                        [] i = 5 -> <<"dog">>
                        [] OTHER -> <<>>,
                      CASE i \in {1, 2, RecentCount + 1} -> <<"greeting">>
                        [] i \in {3, 4, 5} -> <<"pets">>
                        [] OTHER -> <<>>)]

\* MemoryManager.__init__
ManagerInit ==
    /\ consolidation_counter = 0
    /\ consolidation_threshold \in 1..MaxThreshold
    /\ mgr_pc = "idle"
    /\ mgr_queue = <<>>
    /\ mgr_calls = 0
    /\ mgr_runs = 0
    /\ mgr_last = NoTrigger

ManagerIdle ==
    /\ consolidation_counter = 0
    /\ consolidation_threshold = 1
    /\ mgr_pc = "idle"
    /\ mgr_queue = <<>>
    /\ mgr_calls = 0
    /\ mgr_runs = 0
    /\ mgr_last = NoTrigger

-----------------------------------------------------------------------------
(* search_episodes with all its arguments.  An argument left out is <<>>, *)
(* one passed is <<value>>; ranges are pairs <<low, high>>.               *)

\* `if query:` -- None and the empty string are falsy
QueryGiven(arg) == arg # <<>> /\ arg[1] # ""
\* `if tags:` -- None and the empty list are falsy
TagsGiven(arg) == arg # <<>> /\ arg[1] # <<>>
\* `if emotional_range:`, `if time_range:` -- a pair is never falsy
RangeGiven(arg) == arg # <<>>
\* `if importance_threshold:` -- None and 0.0 are falsy
ThresholdGiven(arg) == arg # <<>> /\ arg[1] # 0

\* the rows the WHERE clause built by search_episodes selects
SearchRows(table, q) ==
    LET byQuery == IF QueryGiven(q.query)
                   THEN QueryRows(table, q.query[1]) ELSE DOMAIN table
        byTags == IF TagsGiven(q.tags)
                  THEN TagRows(table, q.tags[1]) ELSE DOMAIN table
        byValence == IF RangeGiven(q.emotional_range)
                     THEN ValenceRows(table, q.emotional_range[1][1],
                                      q.emotional_range[1][2])
                     ELSE DOMAIN table
    IN {i \in byQuery \cap byTags \cap byValence :
          /\ ThresholdGiven(q.importance_threshold) =>
                 table[i].importance >= q.importance_threshold[1]
          /\ RangeGiven(q.time_range) =>
                 /\ table[i].timestamp >= q.time_range[1][1]
                 /\ table[i].timestamp <= q.time_range[1][2]}

\* EpisodicMemory.search_episodes(query, tags, emotional_range,
\* importance_threshold, time_range, max_results)
SearchEpisodes(q, max_results) ==
    /\ Call
    /\ \E selected \in {SelectedRows(episodes, SearchRows(episodes, q),
                                     max_results)} :
          /\ epi_last' = [op |-> "search_episodes", q |-> q,
                          max_results |-> max_results,
                          result |-> [k \in DOMAIN selected |->
                                        row_to_episode(episodes[selected[k]])]]
          /\ episodes' = [i \in DOMAIN episodes |->
                            IF i \in Range(selected)
                            THEN [episodes[i] EXCEPT !.access_count = @ + 1,
                                                     !.last_access = now]
                            ELSE episodes[i]]
    /\ UNCHANGED <<max_episodes, now>>
    /\ UNCHANGED notEpisodic

SearchRow(id, user_input, valence, importance, tags, t) ==
    EpisodeRow(id, [content |-> user_input, context |-> "s1",
                    emotional_valence |-> valence, importance |-> importance,
                    tags |-> tags], t)

\* the episode table left on disk by four earlier turns
MixedEpisodes ==
    << SearchRow("e1", "hotdog cat", 5, 9, <<Greeting>>, 0),
       SearchRow("e2", "dog", -5, 7, <<Farewell>>, 0),
       SearchRow("e3", "cat", 0, 7, <<Greeting, Farewell>>, 0),
       SearchRow("e4", "dog cat", 2, 5, <<Privet>>, 0) >>

Query(query, tags, emotional_range, importance_threshold, time_range) ==
    [query |-> query, tags |-> tags, emotional_range |-> emotional_range,
     importance_threshold |-> importance_threshold,
     time_range |-> time_range]

SearchQueries ==
    { Query(<<>>, <<>>, <<>>, <<>>, <<>>),
      Query(<<"dog">>, <<>>, <<>>, <<>>, <<>>),
      Query(<<>>, << <<Greeting>> >>, <<>>, <<>>, <<>>),
      Query(<<>>, << <<Privet, Farewell>> >>, <<>>, <<>>, <<>>),
      Query(<<>>, << <<>> >>, <<>>, <<>>, <<>>),
      Query(<<>>, <<>>, << <<-5, 2>> >>, <<>>, <<>>),
      Query(<<>>, <<>>, <<>>, <<7>>, <<>>),
      Query(<<>>, <<>>, <<>>, <<>>, << <<1, 1>> >>),
      Query(<<"cat">>, << <<Greeting>> >>, << <<0, 5>> >>, <<7>>,
            << <<0, 1>> >>) }
SearchLimits == {1, 2, SearchLimit}

SearchCall ==
    \E q \in SearchQueries, max_results \in SearchLimits :
        SearchEpisodes(q, max_results)
SearchStore ==
    \E importance \in {7, 9} :
        StoreEpisode("e5", [content |-> "dog", context |-> "s1",
                            emotional_valence |-> 0, importance |-> importance,
                            tags |-> <<Greeting>>])
SearchTick == Tick /\ UNCHANGED epiVars /\ UNCHANGED notEpisodic

(* get_similar_episodes.  Similarities are in units of 1/7200, so that the *)
(* four weighted terms are whole numbers: valence and importance are in    *)
(* tenths and times in hours.                                              *)

\* similarity_threshold = 0.5, max_results = 5, valence -/+ 0.3
SimilarityThreshold == 3600
SimilarLimit == 5
SimilarRadius == 3
\* tag_similarity * 0.4
TagWeight == 2880
\* emotional_similarity * 0.3, per tenth
ValenceWeight == 216
\* importance_similarity * 0.2, per tenth
ImportanceWeight == 144
\* time_similarity * 0.1 with max_time_diff of 30 days = 720 hours
TimeWeight == 720

Max(a, b) == IF a > b THEN a ELSE b

\* _calculate_similarity(episode1, episode2)
calculate_similarity(episode1, episode2) ==
    LET tags1 == Range(episode1.tags)
        tags2 == Range(episode2.tags)
        tag_term == IF episode1.tags # <<>> /\ episode2.tags # <<>>
                    THEN (TagWeight * Cardinality(tags1 \cap tags2))
                             \div Cardinality(tags1 \cup tags2)
                    ELSE 0
        emotional_diff == Abs(episode1.emotional_valence
                                  - episode2.emotional_valence)
        importance_diff == Abs(episode1.importance - episode2.importance)
        time_diff == Abs(episode1.timestamp - episode2.timestamp)
    IN tag_term
       + ValenceWeight * Max(0, 10 - emotional_diff)
       + ImportanceWeight * Max(0, 10 - importance_diff)
       + Max(0, TimeWeight - time_diff)

\* the table after search_episodes has updated the access statistics of the
\* rows it returns
AfterSearch(table, selected, t) ==
    [i \in DOMAIN table |->
        IF i \in Range(selected)
        THEN [table[i] EXCEPT !.access_count = @ + 1, !.last_access = t]
        ELSE table[i]]

\* the Episode objects search_episodes returns
Found(table, selected) ==
    [k \in DOMAIN selected |-> row_to_episode(table[selected[k]])]

RECURSIVE AppendSimilar(_, _, _, _, _)
\* the loops over the episodes found: those of another id that `in`
\* does not hold and that are similar enough are appended
AppendSimilar(similar, found, k, reference, threshold) ==
    IF k > Len(found) THEN similar
    ELSE AppendSimilar(
             IF /\ found[k].id # reference.id
                /\ found[k] \notin Range(similar)
                /\ calculate_similarity(reference, found[k]) >= threshold
             THEN Append(similar, found[k]) ELSE similar,
             found, k + 1, reference, threshold)

\* similar_episodes.sort(key=similarity, reverse=True): stable
SortedBySimilarity(similar, reference) ==
    LET sim == [k \in DOMAIN similar |->
                  calculate_similarity(reference, similar[k])]
        rank == [k \in DOMAIN similar |->
                   Cardinality({n \in DOMAIN similar :
                       sim[n] > sim[k] \/ (sim[n] = sim[k] /\ n < k)})]
    IN [p \in DOMAIN similar |->
          similar[CHOOSE k \in DOMAIN similar : rank[k] = p - 1]]

\* EpisodicMemory.get_similar_episodes(reference_episode,
\* similarity_threshold, max_results): the search by tags, the search by
\* valence, the sort and the cut
GetSimilarEpisodes(reference, threshold, max_results) ==
    /\ Call
    /\ \E first \in {IF reference.tags # <<>>
                     THEN SelectedRows(episodes,
                                       TagRows(episodes, reference.tags),
                                       max_results * 2)
                     ELSE <<>>} :
       \E table1 \in {AfterSearch(episodes, first, now)} :
       \E second \in {SelectedRows(table1,
                          ValenceRows(table1,
                              reference.emotional_valence - SimilarRadius,
                              reference.emotional_valence + SimilarRadius),
                          max_results * 2)} :
       \E by_tags \in {AppendSimilar(<<>>, Found(episodes, first), 1,
                                     reference, threshold)} :
       \E similar \in {AppendSimilar(by_tags, Found(table1, second), 1,
                                     reference, threshold)} :
       \E sorted \in {SortedBySimilarity(similar, reference)} :
          /\ episodes' = AfterSearch(table1, second, now)
          /\ epi_last' = [op |-> "similar", reference |-> reference,
                          threshold |-> threshold,
                          max_results |-> max_results,
                          result |-> SubSeq(sorted, 1,
                                            Min(Len(sorted), max_results))]
    /\ UNCHANGED <<max_episodes, now>>
    /\ UNCHANGED notEpisodic

SimilarThresholds == {0, SimilarityThreshold}
SimilarLimits == {1, SimilarLimit}

\* the reference is an episode the caller has read from the store
SimilarCall ==
    \E i \in DOMAIN episodes, threshold \in SimilarThresholds,
       max_results \in SimilarLimits :
        GetSimilarEpisodes(row_to_episode(episodes[i]), threshold, max_results)

(* store_episode on tables around the size of the cleanup margin *)

\* a limit above the margin, and the rows of a table that is full under it
LimitAboveMargin == CleanupMargin + 1

PruneInput(importance) ==
    [content |-> "hello", context |-> "s1", emotional_valence |-> 0,
     importance |-> importance, tags |-> <<>>]

\* the table left on disk by earlier turns: as many rows as the limit
\* allows, of importance 0.3, 0.5 and 0.7
FullTable ==
    [i \in 1..LimitAboveMargin |->
        EpisodeRow(ToString(i), PruneInput(3 + 2 * (i % 3)), 0)]

PruneIds == {"1", "new1"}
PruneImportances == {1, 7}

PruneStore ==
    \E id \in PruneIds, importance \in PruneImportances :
        StoreEpisode(id, PruneInput(importance))
PruneRetrieve == RetrieveEpisode("new1")
PruneTick == Tick /\ UNCHANGED epiVars /\ UNCHANGED notEpisodic

(* create_association on graphs around the size of the cleanup margin *)

\* the graph left in the snapshot by earlier turns: a hub with as many
\* associations as the limit allows, of strengths 0.3, 0.6 and 0.9
FullGraph ==
    << [c \in {"hub"} \cup {ToString(i) : i \in 1..LimitAboveMargin} |->
            NodeAt(0)],
       [i \in 1..LimitAboveMargin |->
            NewEdge("hub", ToString(i), 480 * (1 + (i % 3)), "general", 0)] >>

\* the first edges and the nodes of a graph
FirstEdges(g, n) ==
    LET edges == SubSeq(g[2], 1, n)
    IN <<RemoveIsolates(g[1], edges), edges>>

PrunePairs == {<<"1", "hub">>, <<"a", "b">>}
\* 0.3 and, just below the 0.9 of the strongest edges, 0.89375
PruneStrengths == {480, 1430}

PruneCreate ==
    \E p \in PrunePairs, st \in PruneStrengths :
        CreateAssociation(p[1], p[2], st, "general")
(* Reads of the three stores, of targets they hold and of targets they do  *)
(* not hold                                                                *)

ReadKeys == {"k1", "k2"}
ReadIds == {"e1", "e9"}
ReadConcepts == {"dog", "cat"}
ReadSeedLists == {<<"cat">>, <<"cat", "bird">>, <<"cat", "dog">>}
ReadPathQueries == {<<"dog", "cat">>, <<"cat", "dog">>, <<"cat", "cat">>,
                    <<"dog", "living">>}
ReadMaxLength == 4

ReadsCacheStore == Store("k1", "c1", 5)
ReadsRetrieve == \E k \in ReadKeys : Retrieve(k)
ReadsRetrieveEpisode == \E id \in ReadIds : RetrieveEpisode(id)
ReadsCreate == CreateAssociation("dog", "cat", 1440, "general")
ReadsGetAssociations ==
    \E c \in ReadConcepts : GetAssociations(c, MaxResults)
ReadsActivate == \E concepts \in ReadSeedLists : ActivateConcepts(concepts)
ReadsFindPath ==
    \E q \in ReadPathQueries : FindPath(q[1], q[2], ReadMaxLength)
ReadsTick ==
    /\ Tick
    /\ UNCHANGED <<cacheVars, epiVars, graphVars, layerVars, gthVars, ethVars,
                   snapVars, recallVars, mgrVars>>

-----------------------------------------------------------------------------

(* Specifications: one per component, the others idle *)

CacheIdle ==
    /\ capacity = 1
    /\ items = <<>>
    /\ item_map = <<>>
    /\ wm_last = [op |-> "init", key |-> None, result |-> None]

EpisodicIdle ==
    /\ max_episodes = 1
    /\ episodes = <<>>
    /\ epi_last = [op |-> "init", id |-> None, args |-> <<>>, result |-> <<>>,
                   after_store |-> <<>>, pruned |-> 0]

GraphIdle ==
    /\ max_associations = 1
    /\ g_nodes = <<>>
    /\ g_edges = <<>>
    /\ graph_last = [op |-> "init", a |-> None, b |-> None, removed |-> 0]

\* MemoryLayer.__init__
LayerIdle ==
    /\ turn_pc = "idle"
    /\ percept = [semantic_map |-> FALSE, relationships |-> FALSE,
                  confident |-> FALSE, processed_text |-> FALSE,
                  keywords |-> FALSE, emotional |-> FALSE]
    /\ turn_log = <<>>
    /\ turn_raised = <<>>
    /\ outcome = "none"

InitCache ==
    now = 0 /\ calls = 0 /\ CacheInit /\ EpisodicIdle /\ GraphIdle /\ LayerIdle
    /\ GraphThreadsIdle /\ EpiThreadsIdle /\ SnapshotIdle
    /\ RecallIdle /\ ManagerIdle

NextCache ==
    \/ CacheStore
    \/ CacheRetrieve
    \/ Clear
    \/ CacheTick

SpecCache == InitCache /\ [][NextCache]_vars

InitEpisodic ==
    now = 0 /\ calls = 0 /\ CacheIdle /\ EpisodicInit /\ GraphIdle /\ LayerIdle
    /\ GraphThreadsIdle /\ EpiThreadsIdle /\ SnapshotIdle
    /\ RecallIdle /\ ManagerIdle

NextEpisodic ==
    \/ EpiStore
    \/ EpiRetrieve
    \/ EpiTick

SpecEpisodic == InitEpisodic /\ [][NextEpisodic]_vars

InitGraph ==
    now = 0 /\ calls = 0 /\ CacheIdle /\ EpisodicIdle /\ GraphInit /\ LayerIdle
    /\ GraphThreadsIdle /\ EpiThreadsIdle /\ SnapshotIdle
    /\ RecallIdle /\ ManagerIdle

NextGraph ==
    \/ GraphCreate
    \/ GraphTick

SpecGraph == InitGraph /\ [][NextGraph]_vars

InitLayer ==
    now = 0 /\ calls = 0 /\ CacheIdle /\ EpisodicIdle /\ GraphIdle /\ LayerIdle
    /\ GraphThreadsIdle /\ EpiThreadsIdle /\ SnapshotIdle
    /\ RecallIdle /\ ManagerIdle

NextLayer ==
    \/ BeginTurn
    \/ RunStep
    \/ ReturnResult
    \/ Handler
    \/ EndTurn

SpecLayer == InitLayer /\ [][NextLayer]_vars

InitGraphThreads ==
    now = 0 /\ calls = 0 /\ CacheIdle /\ EpisodicIdle /\ GraphInit /\ LayerIdle
    /\ GraphThreadsIdle /\ EpiThreadsIdle /\ SnapshotIdle
    /\ RecallIdle /\ ManagerIdle

NextGraphThreads ==
    \/ \E t \in GraphThreads : ThEnter(t)
    \/ \E t \in GraphThreads : ThHasEdge(t)
    \/ \E t \in GraphThreads : ThReadStrength(t)
    \/ \E t \in GraphThreads : ThWriteEdge(t)
    \/ \E t \in GraphThreads : ThAddEdge(t)
    \/ \E t \in GraphThreads : ThCleanup(t)
    \/ GraphThreadsTick

SpecGraphThreads == InitGraphThreads /\ [][NextGraphThreads]_vars

InitEpiThreads ==
    now = 0 /\ calls = 0 /\ CacheIdle /\ EpisodicInit /\ GraphIdle /\ LayerIdle
    /\ GraphThreadsIdle /\ EpiThreadsIdle /\ SnapshotIdle
    /\ RecallIdle /\ ManagerIdle

NextEpiThreads ==
    \/ \E t \in EpiThreads : EthBegin(t)
    \/ \E t \in EpiThreads : EthAcquire(t)
    \/ \E t \in EpiThreads : EthBody(t)
    \/ \E t \in EpiThreads : EthUpdateStats(t)
    \/ \E t \in EpiThreads : EthCleanupCount(t)
    \/ \E t \in EpiThreads : EthCleanupDelete(t)
    \/ \E t \in EpiThreads : EthReturn(t)

SpecEpiThreads == InitEpiThreads /\ [][NextEpiThreads]_vars

\* a thread that can take a step of its call eventually takes one
SpecEpiThreadsFair ==
    SpecEpiThreads /\ \A t \in EpiThreads : WF_vars(EthStep(t))

NextEpisodicRestart ==
    \/ EpiStore
    \/ EpiRetrieve
    \/ EpiReopenRetrieve
    \/ EpiTick

SpecEpisodicRestart == InitEpisodic /\ [][NextEpisodicRestart]_vars

InitGraphQuery ==
    now = 0 /\ calls = 0 /\ CacheIdle /\ EpisodicIdle /\ GraphQueryInit
    /\ LayerIdle /\ GraphThreadsIdle /\ EpiThreadsIdle /\ SnapshotIdle
    /\ RecallIdle /\ ManagerIdle

NextGraphQuery ==
    \/ QueryCreate
    \/ QueryActivate
    \/ QueryFindPath
    \/ GraphTick

SpecGraphQuery == InitGraphQuery /\ [][NextGraphQuery]_vars

(* The three stores written with numbers of any size: importance and       *)
(* valence in tenths, strength in units of 1/1600.                         *)

RangeImportances == {-5, 5, 15}
RangeValences == {-15, 0, 15}
RangeStrengths == {-800, 800, 2400}

\* processed_text.complexity and .sentiment of a percept, in tenths
Complexities == {-30, 10}
Sentiments == {-20, 10}
ConceptCounts == {0, 5}

\* MemoryLayer._calculate_episode_importance, in tenths: 0.5, plus
\* complexity * 0.3, plus |sentiment| * 0.2, plus min(concepts / 10, 0.3),
\* plus 0.2 for a question, cut at 1.0 (the products are whole numbers of
\* tenths for the percepts drawn here)
calculate_episode_importance(complexity, sentiment, concept_count, question) ==
    LET importance == 5 + ((complexity * 3) \div 10)
                        + ((Abs(sentiment) * 2) \div 10)
                        + Min(concept_count, 3)
                        + (IF question THEN 2 ELSE 0)
    IN Min(importance, 10)

RangeCacheStore ==
    \E k \in {"k1", "k2"}, imp \in RangeImportances : Store(k, "c1", imp)

RangeEpisodeStore ==
    \E imp \in RangeImportances, val \in RangeValences :
        StoreEpisode("e1", [content |-> "hello", context |-> "s1",
                          emotional_valence |-> val, importance |-> imp,
                          tags |-> <<>>])

\* MemoryLayer._create_episode: valence is the percept's sentiment and
\* importance the calculated one
RangeRecord ==
    \E complexity \in Complexities, sentiment \in Sentiments,
       concept_count \in ConceptCounts, question \in BOOLEAN :
        StoreEpisode("e2", [content |-> "hello", context |-> "s1",
                          emotional_valence |-> sentiment,
                          importance |-> calculate_episode_importance(
                              complexity, sentiment, concept_count, question),
                          tags |-> <<>>])

RangeCreate ==
    \E p \in {<<"dog", "animal">>, <<"dog", "pet">>}, st \in RangeStrengths :
        CreateAssociation(p[1], p[2], st, "general")

RangeTick == Tick /\ UNCHANGED <<cacheVars, epiVars, graphVars>>
                  /\ UNCHANGED <<layerVars, gthVars, ethVars, snapVars, recallVars, mgrVars>>


\* ---- every operation of the graph, with consolidation runs between them

\* get_concept_clusters(min_cluster_size = 3)
DefaultClusterSize == 3

\* self.association_threshold * 1.5
ClusterThreshold == (AssociationThreshold * 3) \div 2

\* the edges get_concept_clusters copies into strong_graph
StrongEdges(edges, t) ==
    {i \in DOMAIN edges : apply_decay(edges[i], t) >= ClusterThreshold}

\* nx.connected_components(strong_graph): the component that holds `seen`
RECURSIVE Component(_, _, _)
Component(edges, strong, seen) ==
    LET next == seen \cup UNION {{edges[i].a, edges[i].b} :
                    i \in {j \in strong : edges[j].a \in seen
                                          \/ edges[j].b \in seen}}
    IN IF next = seen THEN seen ELSE Component(edges, strong, next)

\* get_concept_clusters(min_cluster_size): the components of strong_graph
\* with at least min_cluster_size concepts (as a set: the order of the list
\* and of each cluster is the iteration order of Python sets)
get_concept_clusters(edges, min_cluster_size, t) ==
    LET strong == StrongEdges(edges, t)
        concepts == UNION {{edges[i].a, edges[i].b} : i \in strong}
    IN {component \in {Component(edges, strong, {c}) : c \in concepts} :
          Cardinality(component) >= min_cluster_size}

\* AssociationNetwork.get_concept_clusters(min_cluster_size)
GetConceptClusters(min_cluster_size) ==
    /\ Call
    /\ graph_last' = [op |-> "clusters", min_cluster_size |-> min_cluster_size,
                      at |-> now,
                      result |-> get_concept_clusters(g_edges,
                                                      min_cluster_size, now)]
    /\ UNCHANGED <<max_associations, g_nodes, g_edges, now>>
    /\ UNCHANGED notGraph

\* the associations a turn records: a relationship and a relationship of
\* a concept with itself
OpsCreates == {<<"dog", "cat", 1120>>, <<"cat", "cat", 1440>>}
OpsSeedLists == {<<"dog">>, <<"cat", "dog">>}
OpsPathQueries == {<<"dog", "entity">>}
OpsClusterSizes == {2, DefaultClusterSize}

OpsCreate ==
    /\ mgr_pc = "idle"
    /\ \E c \in OpsCreates : CreateAssociation(c[1], c[2], c[3], "general")
OpsGetAssociations ==
    /\ mgr_pc = "idle"
    /\ \E c \in {"dog", "cat"} : GetAssociations(c, MaxResults)
OpsActivate ==
    /\ mgr_pc = "idle"
    /\ \E concepts \in OpsSeedLists : ActivateConcepts(concepts)
OpsFindPath ==
    /\ mgr_pc = "idle"
    /\ \E q \in OpsPathQueries : FindPath(q[1], q[2], ReadMaxLength)
OpsClusters ==
    /\ mgr_pc = "idle"
    /\ \E n \in OpsClusterSizes : GetConceptClusters(n)

\* the limit of the graph: the default, or one the chain just fits in
OpsLimits == {Len(ChainGraph[2]), DefaultMaxAssociations}

InitGraphOps ==
    /\ now = 0 /\ calls = 0
    /\ CacheIdle
    /\ max_episodes = DefaultMaxEpisodes
    /\ episodes = GreetingEpisodes
    /\ epi_last = [op |-> "init", id |-> None, args |-> <<>>, result |-> <<>>,
                   after_store |-> <<>>, pruned |-> 0]
    /\ max_associations \in OpsLimits
    /\ \E g \in {EmptyGraph, ChainGraph} : g_nodes = g[1] /\ g_edges = g[2]
    /\ graph_last = [op |-> "init", a |-> None, b |-> None, removed |-> 0]
    /\ LayerIdle /\ GraphThreadsIdle /\ EpiThreadsIdle /\ SnapshotIdle
    /\ RecallIdle
    /\ ManagerInit

NextGraphOps ==
    \/ OpsCreate
    \/ OpsGetAssociations
    \/ OpsActivate
    \/ OpsFindPath
    \/ OpsClusters
    \/ TriggerConsolidation
    \/ MgrReinforce
    \/ MgrCleanup
    \/ MgrSave
    \/ MgrTick

SpecGraphOps == InitGraphOps /\ [][NextGraphOps]_vars

InitTagSearch ==
    now = 0 /\ calls = 0 /\ CacheIdle /\ TagSearchInit /\ GraphIdle /\ LayerIdle
    /\ GraphThreadsIdle /\ EpiThreadsIdle /\ SnapshotIdle
    /\ RecallIdle /\ ManagerIdle

NextTagSearch ==
    \/ TagStore
    \/ TagSearch
    \/ EpiTick

SpecTagSearch == InitTagSearch /\ [][NextTagSearch]_vars

InitRange ==
    now = 0 /\ calls = 0 /\ CacheInit /\ EpisodicInit /\ GraphInit /\ LayerIdle
    /\ GraphThreadsIdle /\ EpiThreadsIdle /\ SnapshotIdle
    /\ RecallIdle /\ ManagerIdle

NextRange ==
    \/ RangeCacheStore
    \/ RangeEpisodeStore
    \/ RangeRecord
    \/ RangeCreate
    \/ RangeTick

SpecRange == InitRange /\ [][NextRange]_vars

\* MemoryLayer.__init__: an empty working memory or one a turn has filled,
\* the episode table and the graph as found on disk
InitRecall ==
    /\ now = 0 /\ calls = 0
    /\ capacity = DefaultCapacity
    /\ \/ items = <<>> /\ item_map = <<>>
       \/ items = OneTurnItems /\ item_map = OneTurnItemMap
    /\ wm_last = [op |-> "init", key |-> None, result |-> None]
    /\ max_episodes = DefaultMaxEpisodes
    /\ episodes \in {<<>>, FourEpisodes}
    /\ epi_last = [op |-> "init", id |-> None, args |-> <<>>, result |-> <<>>,
                   after_store |-> <<>>, pruned |-> 0]
    /\ max_associations = DefaultMaxAssociations
    /\ \E g \in {EmptyGraph, ChainGraph} : g_nodes = g[1] /\ g_edges = g[2]
    /\ graph_last = [op |-> "init", a |-> None, b |-> None, removed |-> 0]
    /\ LayerIdle /\ GraphThreadsIdle /\ EpiThreadsIdle /\ SnapshotIdle
    /\ RecallIdle /\ ManagerIdle

NextRecall ==
    \/ RecallCacheStore
    \/ RecallEpisodeStore
    \/ RecallCall
    \/ RecallTick

SpecRecall == InitRecall /\ [][NextRecall]_vars

\* MemoryManager.__init__ with the episode table and the graph as found
\* on disk
InitManager ==
    /\ now = 0 /\ calls = 0
    /\ CacheIdle
    /\ max_episodes = DefaultMaxEpisodes
    /\ episodes \in {<<>>, GreetingEpisodes}
    /\ epi_last = [op |-> "init", id |-> None, args |-> <<>>, result |-> <<>>,
                   after_store |-> <<>>, pruned |-> 0]
    /\ max_associations = DefaultMaxAssociations
    /\ \E g \in {EmptyGraph, ChainGraph} : g_nodes = g[1] /\ g_edges = g[2]
    /\ graph_last = [op |-> "init", a |-> None, b |-> None, removed |-> 0]
    /\ LayerIdle /\ GraphThreadsIdle /\ EpiThreadsIdle /\ SnapshotIdle
    /\ RecallIdle
    /\ ManagerInit

NextManager ==
    \/ TriggerConsolidation
    \/ MgrReinforce
    \/ MgrCleanup
    \/ MgrSave
    \/ MgrEpisodeStore
    \/ MgrTick

SpecManager == InitManager /\ [][NextManager]_vars

InitReads ==
    /\ now = 0 /\ calls = 0
    /\ capacity = DefaultCapacity
    /\ items = <<>>
    /\ item_map = <<>>
    /\ wm_last = [op |-> "init", key |-> None, result |-> None]
    /\ max_episodes = DefaultMaxEpisodes
    /\ episodes \in {<<>>, ThreeEpisodes}
    /\ epi_last = [op |-> "init", id |-> None, args |-> <<>>, result |-> <<>>,
                   after_store |-> <<>>, pruned |-> 0]
    /\ max_associations = DefaultMaxAssociations
    /\ \E g \in {EmptyGraph, ChainGraph} : g_nodes = g[1] /\ g_edges = g[2]
    /\ graph_last = [op |-> "init", a |-> None, b |-> None, removed |-> 0]
    /\ LayerIdle /\ GraphThreadsIdle /\ EpiThreadsIdle /\ SnapshotIdle
    /\ RecallIdle /\ ManagerIdle

NextReads ==
    \/ ReadsCacheStore
    \/ ReadsRetrieve
    \/ ReadsRetrieveEpisode
    \/ ReadsCreate
    \/ ReadsGetAssociations
    \/ ReadsActivate
    \/ ReadsFindPath
    \/ ReadsTick

SpecReads == InitReads /\ [][NextReads]_vars

InitSearch ==
    /\ now = 0 /\ calls = 0
    /\ CacheIdle
    /\ max_episodes = DefaultMaxEpisodes
    /\ episodes \in {<<>>, MixedEpisodes}
    /\ epi_last = [op |-> "init", id |-> None, args |-> <<>>, result |-> <<>>,
                   after_store |-> <<>>, pruned |-> 0]
    /\ GraphIdle /\ LayerIdle /\ GraphThreadsIdle /\ EpiThreadsIdle
    /\ SnapshotIdle /\ RecallIdle /\ ManagerIdle

NextSearch ==
    \/ SearchCall
    \/ SearchStore
    \/ SearchTick

SpecSearch == InitSearch /\ [][NextSearch]_vars

InitPrune ==
    /\ now = 0 /\ calls = 0
    /\ CacheIdle
    /\ max_episodes \in {2, LimitAboveMargin, LimitAboveMargin + 1}
    /\ episodes = IF max_episodes = 2 THEN SubSeq(FullTable, 1, 2)
                  ELSE FullTable
    /\ epi_last = [op |-> "init", id |-> None, args |-> <<>>, result |-> <<>>,
                   after_store |-> <<>>, pruned |-> 0]
    /\ GraphIdle /\ LayerIdle /\ GraphThreadsIdle /\ EpiThreadsIdle
    /\ SnapshotIdle /\ RecallIdle /\ ManagerIdle

NextPrune ==
    \/ PruneStore
    \/ PruneRetrieve
    \/ PruneTick

SpecPrune == InitPrune /\ [][NextPrune]_vars

InitSimilar ==
    /\ now = 0 /\ calls = 0
    /\ CacheIdle
    /\ max_episodes = DefaultMaxEpisodes
    /\ episodes \in {SubSeq(MixedEpisodes, 1, 2), MixedEpisodes}
    /\ epi_last = [op |-> "init", id |-> None, args |-> <<>>, result |-> <<>>,
                   after_store |-> <<>>, pruned |-> 0]
    /\ GraphIdle /\ LayerIdle /\ GraphThreadsIdle /\ EpiThreadsIdle
    /\ SnapshotIdle /\ RecallIdle /\ ManagerIdle

NextSimilar ==
    \/ SimilarCall
    \/ SearchStore
    \/ SearchTick

SpecSimilar == InitSimilar /\ [][NextSimilar]_vars

NextUpsert ==
    \/ UpsertStore
    \/ UpsertRetrieve
    \/ CacheTick

SpecUpsert == InitCache /\ [][NextUpsert]_vars

\* MemoryManager.__init__ over a short and over a long episode table
InitConsolidate ==
    /\ now = 0 /\ calls = 0
    /\ CacheIdle
    /\ max_episodes = DefaultMaxEpisodes
    /\ episodes \in {GreetingEpisodes, BusyEpisodes}
    /\ epi_last = [op |-> "init", id |-> None, args |-> <<>>, result |-> <<>>,
                   after_store |-> <<>>, pruned |-> 0]
    /\ max_associations = DefaultMaxAssociations
    /\ g_nodes = ChainGraph[1] /\ g_edges = ChainGraph[2]
    /\ graph_last = [op |-> "init", a |-> None, b |-> None, removed |-> 0]
    /\ LayerIdle /\ GraphThreadsIdle /\ EpiThreadsIdle /\ SnapshotIdle
    /\ RecallIdle
    /\ ManagerInit

\* an episode recorded between triggers
ConsolidateStore ==
    /\ mgr_pc = "idle"
    /\ StoreEpisode("e5", [content |-> <<"dog">>, context |-> "s1",
                           emotional_valence |-> 0, importance |-> 8,
                           tags |-> <<"greeting">>])

NextConsolidate ==
    \/ TriggerConsolidation
    \/ MgrReinforce
    \/ MgrCleanup
    \/ MgrSave
    \/ ConsolidateStore
    \/ MgrTick

SpecConsolidate == InitConsolidate /\ [][NextConsolidate]_vars

\* ---- one turn of MemoryLayer.process with its data, none of its calls
\* ---- raising: the three writes, then the recall and the activation

\* f"user_input_{int(time.time())}"
InputKey(t) ==
    CASE t = 0 -> "user_input_0" [] t = 1 -> "user_input_1"
      [] OTHER -> "user_input_2"

\* f"concept_{concept.name}"
ConceptKey(name) ==
    CASE name = "dog" -> "concept_dog" [] name = "cat" -> "concept_cat"

\* hashlib.md5(f"{user_input}_{time.time()}"): one id for each input and time
TurnEpisodeId(user_input, t) ==
    CASE user_input = "dog" /\ t = 0 -> "md5_dog_0"
      [] user_input = "dog" /\ t = 1 -> "md5_dog_1"
      [] user_input = "dog" -> "md5_dog_2"
      [] user_input = "cat" /\ t = 0 -> "md5_cat_0"
      [] user_input = "cat" /\ t = 1 -> "md5_cat_1"
      [] OTHER -> "md5_cat_2"

\* WorkingMemory.store on the cache <<dq, map>>: the cache after it
store(dq, map, maxlen, key, content, importance, t) ==
    IF key \in DOMAIN map
    THEN <<dq, [map EXCEPT ![key] =
                  access([@ EXCEPT !.content = content,
                                   !.importance = importance], t)]>>
    ELSE LET ev == IF Len(dq) >= maxlen
                   THEN EvictLeastImportant(dq, map, t)
                   ELSE <<dq, map>>
         IN <<DequeAppend(ev[1], key, maxlen),
              [x \in (DOMAIN ev[2]) \cup {key} |->
                 IF x = key THEN MemoryItem(content, t, importance)
                 ELSE ev[2][x]]>>

\* semantic_map.concepts[:5]
StoredConcepts == 5
\* the importance of the input entry and the strength of a same-level pair
InputImportance == 8
SameLevelStrength == 480
\* concept.confidence > 0.5, in tenths
ConfidenceThreshold == 5

RECURSIVE StoreConcepts(_, _, _, _, _)
\* the loop of _store_in_working_memory from the k-th concept on
StoreConcepts(cache, maxlen, concepts, k, t) ==
    IF k > Min(Len(concepts), StoredConcepts) THEN cache
    ELSE StoreConcepts(store(cache[1], cache[2], maxlen,
                             ConceptKey(concepts[k].name), concepts[k].name,
                             concepts[k].confidence, t),
                       maxlen, concepts, k + 1, t)

\* _store_in_working_memory
StoreInWorkingMemory(dq, map, maxlen, user_input, p, t) ==
    LET stored == store(dq, map, maxlen, InputKey(t), user_input,
                        InputImportance, t)
    IN IF p.semantic_map
       THEN StoreConcepts(stored, maxlen, p.concepts, 1, t)
       ELSE stored

\* _create_episode: the row store_episode writes
TurnEpisode(user_input, p, t) ==
    EpisodeRow(TurnEpisodeId(user_input, t),
               [content |-> user_input, context |-> "s1",
                emotional_valence |-> IF p.processed_text THEN p.sentiment
                                      ELSE 0,
                importance |-> calculate_episode_importance(
                    0, IF p.processed_text THEN p.sentiment ELSE 0,
                    IF p.semantic_map THEN Len(p.concepts) ELSE 0, FALSE),
                tags |-> <<>>], t)

\* the create_association calls of _update_associations, in order: one for
\* each relationship, then one for each pair of concepts of a level
TurnCreates(p) ==
    IF ~p.semantic_map THEN <<>>
    ELSE [k \in DOMAIN p.relationships |->
            [a |-> p.relationships[k].source,
             b |-> p.relationships[k].target,
             strength |-> p.relationships[k].strength,
             tag |-> p.relationships[k].relation_type]]
         \o PairsFrom(p.same_level, 1, SameLevelStrength, "same_level")

RECURSIVE UpdateAssociations(_, _, _, _, _)
\* _update_associations from the k-th call on
UpdateAssociations(graph, creates, k, limit, t) ==
    IF k > Len(creates) THEN graph
    ELSE UpdateAssociations(
             create_association(graph[1], graph[2], creates[k].a, creates[k].b,
                                creates[k].strength, creates[k].tag, limit, t),
             creates, k + 1, limit, t)

\* _activate_concepts: the names of the concepts with confidence > 0.5
ConceptsToActivate(p) ==
    IF ~p.semantic_map THEN <<>>
    ELSE LET confident == {k \in DOMAIN p.concepts :
                             p.concepts[k].confidence > ConfidenceThreshold}
         IN [n \in 1..Cardinality(confident) |->
               p.concepts[CHOOSE k \in confident :
                            Cardinality({j \in confident : j < k}) = n - 1].name]

\* MemoryLayer.process(context), lines 29-42
ProcessTurn(user_input, p) ==
    /\ Call
    /\ \E cache \in {StoreInWorkingMemory(items, item_map, capacity,
                                          user_input, p, now)} :
       \E inserted \in {InsertOrReplace(episodes,
                                        TurnEpisode(user_input, p, now))} :
       \E table \in {CleanupIfNeeded(inserted, max_episodes)} :
       \E graph \in {UpdateAssociations(<<g_nodes, g_edges>>, TurnCreates(p),
                                        1, max_associations, now)} :
       \E selected \in {RecallSearches(table, p, 1)} :
       \E gathered \in {Gathered(cache[1], cache[2], table, user_input, p,
                                 selected)} :
       \E seeds \in {ConceptsToActivate(p)} :
          /\ items' = cache[1]
          /\ item_map' = cache[2]
          /\ wm_last' = [op |-> "store", key |-> InputKey(now),
                         result |-> None]
          /\ episodes' = [i \in DOMAIN table |->
                            LET hits == Cardinality({k \in DOMAIN selected :
                                                   i \in Range(selected[k])})
                            IN IF hits > 0
                               THEN [table[i] EXCEPT
                                       !.access_count = @ + hits,
                                       !.last_access = now]
                               ELSE table[i]]
          /\ epi_last' = [op |-> "store",
                          id |-> TurnEpisodeId(user_input, now),
                          args |-> <<>>, result |-> <<>>,
                          after_store |-> <<>>,
                          pruned |-> Len(inserted) - Len(table)]
          /\ g_edges' = graph[2]
          /\ g_nodes' = [c \in DOMAIN graph[1] |->
                           activate_concept(graph[1], c,
                                            2 * Occurrences(seeds, c), now)[c]]
          /\ graph_last' = [op |-> "activate", concepts |-> seeds, at |-> now,
                            result |-> activate_concepts(graph[1], graph[2],
                                                         seeds, now)]
          /\ recall_last' =
                [op |-> "recall", user_input |-> user_input, percept |-> p,
                 at |-> now, gathered |-> gathered,
                 result |-> CutTo(SortedByRelevance(gathered, Len(gathered)),
                                  RecallLimit)]
    /\ UNCHANGED <<now, capacity, max_episodes, max_associations>>
    /\ UNCHANGED <<layerVars, gthVars, ethVars, snapVars, mgrVars>>

\* what perception hands to a turn: concepts with their confidence (tenths),
\* relationships, the concepts of one abstraction level, keywords, sentiment
TurnPercepts ==
    { [semantic_map |-> TRUE, processed_text |-> TRUE,
       concepts |-> << [name |-> "dog", confidence |-> 9],
                       [name |-> "cat", confidence |-> 3] >>,
       relationships |-> << [source |-> "dog", target |-> "cat",
                             strength |-> 960, relation_type |-> "chases"] >>,
       same_level |-> <<>>,
       keywords |-> <<"dog">>, sentiment |-> 0],
      [semantic_map |-> TRUE, processed_text |-> TRUE,
       concepts |-> << [name |-> "dog", confidence |-> 9],
                       [name |-> "cat", confidence |-> 9] >>,
       relationships |-> <<>>,
       same_level |-> <<"dog", "cat">>,
       keywords |-> <<"cat">>, sentiment |-> 5],
      [semantic_map |-> FALSE, processed_text |-> FALSE,
       concepts |-> <<>>, relationships |-> <<>>, same_level |-> <<>>,
       keywords |-> <<>>, sentiment |-> 0] }

TurnInputs == {"dog", "cat"}

TurnProcess == \E user_input \in TurnInputs, p \in TurnPercepts :
                  ProcessTurn(user_input, p)

TurnTick == Tick /\ UNCHANGED <<cacheVars, epiVars, graphVars>>
                 /\ UNCHANGED <<layerVars, gthVars, ethVars, snapVars, mgrVars>>
                 /\ UNCHANGED recallVars

\* MemoryLayer.__init__ with the stores as a process finds them at start
InitTurn ==
    /\ now = 0 /\ calls = 0
    /\ capacity = DefaultCapacity
    /\ items = <<>>
    /\ item_map = <<>>
    /\ wm_last = [op |-> "init", key |-> None, result |-> None]
    /\ max_episodes = DefaultMaxEpisodes
    /\ episodes \in {<<>>, FourEpisodes}
    /\ epi_last = [op |-> "init", id |-> None, args |-> <<>>, result |-> <<>>,
                   after_store |-> <<>>, pruned |-> 0]
    /\ max_associations = DefaultMaxAssociations
    /\ g_nodes = EmptyGraph[1] /\ g_edges = EmptyGraph[2]
    /\ graph_last = [op |-> "init", a |-> None, b |-> None, removed |-> 0]
    /\ LayerIdle /\ GraphThreadsIdle /\ EpiThreadsIdle /\ SnapshotIdle
    /\ RecallIdle /\ ManagerIdle

NextTurn ==
    \/ TurnProcess
    \/ TurnTick

SpecTurn == InitTurn /\ [][NextTurn]_vars

\* get_recent_episodes(count = 5)
RecentDefault == 5

\* ---- stores over existing ids between the reads that count accesses

\* EpisodicMemory.get_recent_episodes(count)
GetRecentEpisodes(count) ==
    /\ Call
    /\ \E rows \in {RecentRows(episodes, count)} :
          epi_last' = [op |-> "get_recent_episodes", count |-> count,
                       result |-> [k \in DOMAIN rows |->
                                     row_to_episode(episodes[rows[k]])]]
    /\ UNCHANGED <<max_episodes, episodes, now>>
    /\ UNCHANGED notEpisodic

AccessIds == {"e1", "e5"}
AccessInputs ==
    { [content |-> "dog", context |-> "s1", emotional_valence |-> 0,
       importance |-> 7, tags |-> <<Greeting>>],
      [content |-> "cat", context |-> "s1", emotional_valence |-> 5,
       importance |-> 3, tags |-> <<>>] }
AccessQueries == { Query(<<>>, <<>>, <<>>, <<>>, <<>>),
                   Query(<<"dog">>, <<>>, <<>>, <<>>, <<>>) }
AccessLimits == {1, SearchLimit}
AccessCounts == {1, RecentDefault}

AccessStore == \E id \in AccessIds, in \in AccessInputs : StoreEpisode(id, in)
AccessRetrieve == \E id \in AccessIds : RetrieveEpisode(id)
AccessSearch ==
    \E q \in AccessQueries, max_results \in AccessLimits :
        SearchEpisodes(q, max_results)
AccessRecent == \E count \in AccessCounts : GetRecentEpisodes(count)

InitAccess ==
    /\ now = 0 /\ calls = 0
    /\ CacheIdle
    /\ max_episodes = DefaultMaxEpisodes
    /\ episodes \in {<<>>, MixedEpisodes}
    /\ epi_last = [op |-> "init", id |-> None, args |-> <<>>, result |-> <<>>,
                   after_store |-> <<>>, pruned |-> 0]
    /\ GraphIdle /\ LayerIdle /\ GraphThreadsIdle /\ EpiThreadsIdle
    /\ SnapshotIdle /\ RecallIdle /\ ManagerIdle

NextAccess ==
    \/ AccessStore
    \/ AccessRetrieve
    \/ AccessSearch
    \/ AccessRecent
    \/ SearchTick

SpecAccess == InitAccess /\ [][NextAccess]_vars

InitGraphPrune ==
    /\ now = 0 /\ calls = 0
    /\ CacheIdle /\ EpisodicIdle
    /\ max_associations \in {2, LimitAboveMargin, LimitAboveMargin + 1}
    /\ \E g \in {IF max_associations = 2 THEN FirstEdges(FullGraph, 2)
                 ELSE FullGraph} :
          g_nodes = g[1] /\ g_edges = g[2]
    /\ graph_last = [op |-> "init", a |-> None, b |-> None, removed |-> 0]
    /\ LayerIdle /\ GraphThreadsIdle /\ EpiThreadsIdle /\ SnapshotIdle
    /\ RecallIdle /\ ManagerIdle

NextGraphPrune ==
    \/ PruneCreate
    \/ GraphTick

SpecGraphPrune == InitGraphPrune /\ [][NextGraphPrune]_vars

InitSnapshot ==
    now = 0 /\ calls = 0 /\ CacheIdle /\ EpisodicIdle /\ GraphInit /\ LayerIdle
    /\ GraphThreadsIdle /\ EpiThreadsIdle /\ SnapshotIdle
    /\ RecallIdle /\ ManagerIdle

NextSnapshot ==
    \/ SnapCreate
    \/ SaveOpen
    \/ SaveDump
    \/ Crash
    \/ Restart

SpecSnapshot == InitSnapshot /\ [][NextSnapshot]_vars

-----------------------------------------------------------------------------
(* Claims *)

\* what retrieve(key) would return, without the access-statistics bump
Retrievable(key) == key \in DOMAIN item_map

(* C1: after every store call the cache holds at most `capacity` items
   (keys for which retrieve returns content). *)
C1_CacheCapacity == Cardinality(DOMAIN item_map) <= capacity

\* the position of key k in deque dq (0 when absent)
IndexOf(dq, k) ==
    IF k \in Range(dq)
    THEN CHOOSE i \in DOMAIN dq : dq[i] = k /\ \A j \in 1..(i-1) : dq[j] # k
    ELSE 0

\* this step is a call store(key, ...) of a key the cache does not hold
IsStoreOfNewKey ==
    /\ wm_last'.op = "store"
    /\ calls' # calls
    /\ wm_last'.key \notin DOMAIN item_map
    /\ wm_last'.key \in DOMAIN item_map'

(* C5: a store of a new key on a full cache evicts exactly one existing item,
   the one with the minimum score importance - ageHours (smallest insertion
   index among equal scores), and the new key is retrievable afterwards. *)
C5_EvictionCorrect ==
    [][(IsStoreOfNewKey /\ Len(items) >= capacity) =>
        \E victim \in DOMAIN item_map :
            /\ DOMAIN item_map' =
                   ((DOMAIN item_map) \ {victim}) \cup {wm_last'.key}
            /\ \A o \in DOMAIN item_map :
                   Score(item_map[victim], now) <= Score(item_map[o], now)
            /\ \A o \in (DOMAIN item_map) \ {victim} :
                   Score(item_map[o], now) = Score(item_map[victim], now)
                       => IndexOf(items, victim) < IndexOf(items, o)]_vars

(* C2: the row count of the episodic store is <= max_episodes when each
   store_episode call returns. *)
C2_EpisodicCapacity == Len(episodes) <= max_episodes

\* a store_episode has overflowed the limit and pruned
C2_Witness == epi_last.op = "store" /\ epi_last.pruned > 0

(* C3: the number of edges of the association graph is <= max_associations
   when each create_association call returns. *)
C3_GraphCapacity == Len(g_edges) <= max_associations

\* a create_association has overflowed the limit and pruned
C3_Witness == graph_last.op = "create" /\ graph_last.removed > 0

(* C4: store_episode(id, ...) immediately followed by retrieve_episode(id)
   returns an episode whose content, tags, importance and emotional valence
   are the stored ones -- in every store state, at the limit too. *)
C4_RoundTrip ==
    (epi_last.op = "retrieve" /\ epi_last.after_store # <<>>) =>
        /\ epi_last.result # <<>>
        /\ epi_last.result[1].content = epi_last.after_store[1].content
        /\ epi_last.result[1].tags = epi_last.after_store[1].tags
        /\ epi_last.result[1].importance = epi_last.after_store[1].importance
        /\ epi_last.result[1].emotional_valence =
               epi_last.after_store[1].emotional_valence

(* C6: whatever subsystem calls fail (the episodic stats query included),
   process() returns a result to its caller and never raises. *)
C6_NoExceptionEscapes == outcome # "raised"

(* C7: if exactly one subsystem call of a turn raises, the remaining steps
   of the turn still execute (associations updated, memories gathered,
   activation run) and process() returns the full result. *)
C7_OneFailureDoesNotAbort ==
    (turn_pc = "done" /\ Len(turn_raised) = 1) =>
        /\ outcome = "result"
        /\ \A i \in DOMAIN TurnSteps :
             \A j \in DOMAIN StepCalls(TurnSteps[i], percept) :
                StepCalls(TurnSteps[i], percept)[j] \in
                    Range(turn_log) \cup Range(turn_raised)

(* C8 (consequence): k create_association calls on one pair, issued from
   several threads (the record threads and the consolidation), leave the
   edge with reinforcement_count = k: no reinforcement is lost. *)
C8_NoLostUpdate ==
    (\A t \in GraphThreads : gth_pc[t] = "done") =>
        \E i \in EdgeAt(g_edges, SharedPair[1], SharedPair[2]) :
           g_edges[i].reinforcement_count = Cardinality(GraphThreads)

(* C8 (in full): the writers of the association graph run one at a time,
   the consolidation never overlaps an in-flight record, and no
   reinforcement is lost. *)
C8_SerializedWriters ==
    /\ Cardinality({t \in GraphThreads : gth_pc[t] \in InsideCreate}) <= 1
    /\ C8_NoLostUpdate

(* C9: the insert of store_episode and the pruning it triggers are one atomic
   step for the readers: no search, recent-episodes or stats call that runs
   concurrently with store_episode gets more than max_episodes rows. *)
C9_ReadsNeverSeeOverLimit ==
    \A t \in EpiThreads : eth_local[t].seen <= max_episodes

\* a thread is waiting for something no step of its own can bring about
EthBlocked(t) ==
    \/ eth_pc[t] = "acquire" /\ ~LockFree
    \/ eth_pc[t] = "update_stats" /\ UpdateStatsTakesLock /\ ~LockFree

\* some call is in progress and every call in progress is blocked
EthDeadlock ==
    /\ \E t \in EpiThreads : eth_pc[t] # "idle"
    /\ \A t \in EpiThreads : eth_pc[t] # "idle" => EthBlocked(t)

\* a thread asks for the lock it holds
EthReacquires ==
    \E t \in EpiThreads : epi_lock = <<t>> /\ EthBlocked(t)

(* C10: with threads issuing overlapping calls on one store, no state has
   every thread blocked, no call asks for the lock while holding it, and
   every call that was begun acquires the lock, completes and releases it. *)
C10_DeadlockFree ==
    /\ [](~EthDeadlock /\ ~EthReacquires)
    /\ \A t \in EpiThreads : (eth_pc[t] # "idle") ~> (eth_pc[t] = "idle")

\* one thread waits for the lock while another holds it inside
\* _update_access_stats
C10_Witness ==
    \E t, u \in EpiThreads :
        /\ t # u
        /\ eth_pc[t] = "acquire"
        /\ epi_lock = <<u>>
        /\ eth_pc[u] = "update_stats"

(* C11: after a crash at any point, save_associations included, the graph
   that the restarted process loads is the complete graph of the last save
   that had completed. *)
C11_CrashSafeSnapshot ==
    (graph_last.op = "load" /\ snap_saved # <<>>) =>
        <<g_nodes, g_edges>> = snap_saved[1]

(* C12: once store_episode(id, ...) has returned and pruning has left the
   row in place, a new EpisodicMemory opened on the same db_path returns the
   episode from retrieve_episode(id) with the stored content, context, tags,
   importance and emotional valence. *)
C12_DurableAcrossRestart ==
    (epi_last.op = "reopen_retrieve" /\ epi_last.after_store # <<>>) =>
        /\ epi_last.result # <<>>
        /\ epi_last.result[1].id = epi_last.id
        /\ epi_last.result[1].content = epi_last.after_store[1].content
        /\ epi_last.result[1].context = epi_last.after_store[1].context
        /\ epi_last.result[1].tags = epi_last.after_store[1].tags
        /\ epi_last.result[1].importance = epi_last.after_store[1].importance
        /\ epi_last.result[1].emotional_valence =
               epi_last.after_store[1].emotional_valence

\* a stored episode that survived pruning was asked for after a restart, in
\* a table that holds another episode as well
C12_Witness ==
    /\ epi_last.op = "reopen_retrieve"
    /\ epi_last.after_store # <<>>
    /\ epi_last.result # <<>>
    /\ Len(episodes) = 2

\* the concepts that have a node or are asked about
AllConcepts == DOMAIN g_nodes \cup {"cat"}

\* the seeds joined to n by an edge whose effective strength reaches the
\* threshold
StrongSeeds(seeds, n) ==
    {c \in seeds : \E i \in EdgeAt(g_edges, c, n) :
                      apply_decay(g_edges[i], graph_last.at) >= AssociationThreshold}

(* C13: activate_concepts(S) returns, for every concept n that is not a seed
   and is joined to at least one seed by an edge of effective strength >=
   threshold, the value 0.5 * max over those seeds of the effective strength;
   no other non-seed concept appears; and dog-animal 0.9, dog-pet 0.7,
   activate([dog]) with no time elapsed gives dog 1.0, animal 0.45,
   pet 0.35. *)
C13_SpreadingActivation ==
    graph_last.op = "activate" =>
        LET seeds == Range(graph_last.concepts)
            result == graph_last.result
        IN \A n \in AllConcepts \ seeds :
              /\ n \in DOMAIN result <=> StrongSeeds(seeds, n) # {}
              /\ n \in DOMAIN result =>
                    result[n] = MaxOf({apply_decay(g_edges[i], graph_last.at) :
                                         i \in UNION {EdgeAt(g_edges, c, n) :
                                                c \in StrongSeeds(seeds, n)}})
                                \div 2

(* C14: every concept of the list given to activate_concepts is a key of the
   returned map with the value 1.0, whether or not the graph has a node for
   it and whether or not it is a neighbour of another seed. *)
C14_SeedsAtOne ==
    graph_last.op = "activate" =>
        \A c \in Range(graph_last.concepts) :
            /\ c \in DOMAIN graph_last.result
            /\ graph_last.result[c] = ActivationOne

\* the graph is the chain dog - animal - living - entity and nothing else
IsChain ==
    /\ Len(g_edges) = 3
    /\ has_edge(g_edges, "dog", "animal")
    /\ has_edge(g_edges, "animal", "living")
    /\ has_edge(g_edges, "living", "entity")

(* C15: find_path(a, b, max_length) returns none or a path from a to b along
   existing edges with at most max_length hops; it returns none when a or b
   has no node, when no path joins them, or when the paths of least weight
   have more than max_length hops, and only then; on the chain
   dog - animal - living - entity it returns the chain for max_length 3 and
   none for max_length 2. *)
C15_PathBound ==
    graph_last.op = "find_path" =>
        LET a == graph_last.start
            b == graph_last.end
            m == graph_last.max_length
            r == graph_last.result
            both == has_node(g_nodes, a) /\ has_node(g_nodes, b)
            shortest == IF both THEN ShortestPaths(g_edges, a, b, graph_last.at)
                        ELSE {}
        IN /\ r # <<>> =>
                 /\ r[1][1] = a
                 /\ r[1][Len(r[1])] = b
                 /\ \A k \in 1..(Len(r[1]) - 1) :
                        has_edge(g_edges, r[1][k], r[1][k + 1])
                 /\ Len(r[1]) - 1 <= m
           /\ ~both => r = <<>>
           /\ shortest = {} => r = <<>>
           /\ (\A p \in shortest : Len(p) - 1 > m) => r = <<>>
           /\ r = <<>> => \/ ~both
                          \/ shortest = {}
                          \/ \E p \in shortest : Len(p) - 1 > m
           /\ (IsChain /\ a = "dog" /\ b = "entity" /\ m = 3) =>
                 r = << <<"dog", "animal", "living", "entity">> >>
           /\ (IsChain /\ a = "dog" /\ b = "entity" /\ m = 2) => r = <<>>

\* a path of exactly max_length hops, more than one, was returned
C15_Witness ==
    /\ graph_last.op = "find_path"
    /\ graph_last.result # <<>>
    /\ Len(graph_last.result[1]) - 1 = graph_last.max_length
    /\ graph_last.max_length >= 2

(* C17: while an association is not reinforced, its effective strength read
   at a later time is never above its effective strength read earlier. *)
C17_DecayMonotone ==
    [][\A i \in DOMAIN g_edges :
          (/\ i \in DOMAIN g_edges'
           /\ g_edges'[i] = g_edges[i]
           /\ now' > now)
          => apply_decay(g_edges'[i], now') <= apply_decay(g_edges[i], now)]_vars

\* time has passed since an association was reinforced and its effective
\* strength is below its base strength
C17_Witness ==
    \E i \in DOMAIN g_edges :
        /\ now > g_edges[i].last_reinforcement
        /\ apply_decay(g_edges[i], now) < g_edges[i].strength

\* the rows whose tag set has a tag in common with the tags asked for
RowsSharingATag(table, tags) ==
    {i \in DOMAIN table : Range(JsonLoads(table[i].tags)) \cap Range(tags) # {}}

(* C16: search_episodes(tags=T, max_results) returns an episode if and only
   if its tag set and T have a tag in common (as many of them as the limit
   lets through), in non-increasing order of importance; on the table of
   episodes tagged greeting, farewell, greeting, tags=[greeting] returns
   exactly the two greeting episodes. *)
C16_TagSearch ==
    epi_last.op = "search" =>
        LET result == epi_last.result
            sharing == RowsSharingATag(episodes, epi_last.tags)
        IN /\ \A k \in DOMAIN result :
                 \E i \in sharing : episodes[i].id = result[k].id
           /\ Len(result) = Min(Cardinality(sharing), epi_last.max_results)
           /\ \A k \in 1..(Len(result) - 1) :
                 result[k].importance >= result[k + 1].importance
           /\ (/\ {episodes[i].id : i \in DOMAIN episodes} = {"e1", "e2", "e3"}
               /\ \A i \in DOMAIN episodes :
                     episodes[i].tags = ThreeEpisodes[i].tags
               /\ epi_last.tags = <<Greeting>>
               /\ epi_last.max_results = SearchLimit)
              => {result[k].id : k \in DOMAIN result} = {"e1", "e3"}

(* C18: whatever numbers the callers pass, every importance kept in the
   working memory and in the episode table lies in [0, 1], every
   association strength kept in the graph lies in [0, 1], and every
   emotional valence kept in the episode table lies in [-1, 1]. *)
C18_RangeClamped ==
    /\ \A k \in DOMAIN item_map : item_map[k].importance \in 0..10
    /\ \A i \in DOMAIN episodes :
          /\ episodes[i].importance \in 0..10
          /\ episodes[i].emotional_valence \in (-10)..10
    /\ \A i \in DOMAIN g_edges : g_edges[i].strength \in 0..ActivationOne

(* C19: the list a recall returns has at most 10 entries, is in
   non-increasing order of relevance, and is made of the highest-relevance
   entries gathered from the working memory and the episode searches: an
   entry gathered is left out only when 10 entries of equal or higher
   relevance are returned. *)
C19_RecallFusion ==
    recall_last.op = "recall" =>
        LET result == recall_last.result
            gathered == recall_last.gathered
            Times(list, entry) == Cardinality({n \in DOMAIN list : list[n] = entry})
        IN /\ Len(result) <= RecallLimit
           /\ \A n \in 1..(Len(result) - 1) :
                 result[n].relevance >= result[n + 1].relevance
           /\ \A entry \in Range(result) :
                 Times(result, entry) <= Times(gathered, entry)
           /\ \A entry \in Range(gathered) :
                 Times(result, entry) < Times(gathered, entry) =>
                    /\ Len(result) = RecallLimit
                    /\ \A n \in DOMAIN result :
                          result[n].relevance >= entry.relevance

\* a recall that gathered more than 10 entries and left one out
C19_Witness ==
    /\ recall_last.op = "recall"
    /\ Len(recall_last.gathered) > RecallLimit
    /\ Len(recall_last.result) = RecallLimit

\* the concepts of the percept that _activate_concepts takes as active
ActiveConcepts(p) ==
    {p.concepts[n].name : n \in {m \in DOMAIN p.concepts :
                                    p.concepts[m].confidence > 5}}

(* C20: when an active concept of the percept has an association whose
   current strength reaches the threshold, the entries a recall gathers
   include one with source "association" (next to those of the working
   memory and of the episodes). *)
C20_RecallHasAssociations ==
    recall_last.op = "recall" =>
        \A c \in ActiveConcepts(recall_last.percept) :
            get_associations(g_nodes, g_edges, c, MaxResults,
                             recall_last.at) # <<>>
            => \E n \in DOMAIN recall_last.gathered :
                  recall_last.gathered[n].source = "association"

(* C21: between calls of trigger_consolidation the counter satisfies
   0 <= counter < N (N the threshold); after k calls the consolidation has
   been run floor(k / N) times; and a call runs it only when that call
   brings the counter to exactly N. *)
C21_ConsolidationCadence ==
    mgr_pc = "idle" =>
        /\ consolidation_counter >= 0
        /\ consolidation_counter < consolidation_threshold
        /\ mgr_runs = mgr_calls \div consolidation_threshold
        /\ mgr_last.ran => mgr_last.counter = consolidation_threshold

(* C22: a consolidation run that raises does not pass its exception to the
   caller of trigger_consolidation, and after it the consolidation is not
   attempted again before N further calls have been made. *)
C22_FailureSkipped ==
    mgr_pc = "idle" =>
        /\ ~mgr_last.raised
        /\ mgr_last.ran => mgr_last.counter = consolidation_threshold

\* the contents of the three stores
storeState == <<capacity, items, item_map, max_episodes, episodes,
                max_associations, g_nodes, g_edges>>

(* C23: reads of a missing target return none/empty and change nothing:
   retrieve of an absent key, retrieve_episode of an absent id,
   get_associations and activate_concepts of a concept without a node, and
   find_path with an absent endpoint leave items, rows, nodes, edges and the
   access and activation counters as they were. *)
C23_MissingTargetReads ==
    [][/\ \A k \in ReadKeys :
             (k \notin DOMAIN item_map /\ Retrieve(k)) =>
                 (wm_last'.result = None /\ UNCHANGED storeState)
       /\ \A id \in ReadIds :
             ((\A i \in DOMAIN episodes : episodes[i].id # id)
                 /\ RetrieveEpisode(id)) =>
                 (epi_last'.result = <<>> /\ UNCHANGED storeState)
       /\ \A c \in ReadConcepts :
             (~has_node(g_nodes, c) /\ GetAssociations(c, MaxResults)) =>
                 (graph_last'.result = <<>> /\ UNCHANGED storeState)
       /\ \A concepts \in ReadSeedLists :
             ActivateConcepts(concepts) =>
                 /\ \A c \in Range(concepts) :
                       ~has_node(g_nodes, c) =>
                           /\ c \notin DOMAIN graph_last'.result
                           /\ ~has_node(g_nodes', c)
                 /\ (\A c \in Range(concepts) : ~has_node(g_nodes, c)) =>
                       (DOMAIN graph_last'.result = {}
                           /\ UNCHANGED storeState)
       /\ \A q \in ReadPathQueries :
             (~(has_node(g_nodes, q[1]) /\ has_node(g_nodes, q[2]))
                 /\ FindPath(q[1], q[2], ReadMaxLength)) =>
                 (graph_last'.result = <<>> /\ UNCHANGED storeState)]_vars

\* every kind of missing-target read has been made on stores that hold
\* other targets
C23_Witness ==
    /\ calls = MaxCalls
    /\ graph_last.op \in {"get_associations", "activate", "find_path"}
    /\ graph_last.result = <<>>
    /\ g_edges # <<>>
    /\ wm_last.op = "retrieve" /\ wm_last.result = None /\ items # <<>>

\* the edges of `edges` that join c1 and c2, in either order
Joining(edges, c1, c2) ==
    {edges[i] : i \in EdgeAt(edges, c1, c2)}

\* the edges of `edges` that join another pair
NotJoining(edges, c1, c2) ==
    {edges[i] : i \in (DOMAIN edges) \ EdgeAt(edges, c1, c2)}

(* C24: create_association(a, b, strength, type) on a graph with no edge
   between a and b adds one edge with that strength and type, count 1 and
   both times now, adding the missing nodes; on a graph with such an edge it
   sets the strength to (current + strength) / 2, the count to count + 1 and
   last_reinforcement to now and keeps type and creation_time; both orders
   of the pair address one edge; every other edge keeps its attributes.  The
   pruning check that ends the call can only take edges away. *)
C24_UpdateRule ==
    [][\A p \in ConceptPairs, st \in Strengths, ty \in AssociationTypes :
          (/\ graph_last'.op = "create"
           /\ graph_last'.a = p[1] /\ graph_last'.b = p[2]
           /\ CreateAssociation(p[1], p[2], st, ty)) =>
              LET old == Joining(g_edges, p[1], p[2])
                  expected ==
                      IF old = {}
                      THEN [a |-> p[1], b |-> p[2], strength |-> st,
                            type |-> ty, creation_time |-> now,
                            last_reinforcement |-> now,
                            reinforcement_count |-> 1]
                      ELSE LET e == CHOOSE x \in old : TRUE
                           IN [a |-> e.a, b |-> e.b,
                               strength |-> (e.strength + st) \div 2,
                               type |-> e.type,
                               creation_time |-> e.creation_time,
                               last_reinforcement |-> now,
                               reinforcement_count |->
                                   e.reinforcement_count + 1]
              IN /\ Cardinality(EdgeAt(g_edges, p[1], p[2])) <= 1
                 /\ Joining(g_edges', p[1], p[2]) \subseteq {expected}
                 /\ NotJoining(g_edges', p[1], p[2])
                        \subseteq NotJoining(g_edges, p[1], p[2])
                 /\ graph_last'.removed = 0 =>
                       /\ Joining(g_edges', p[1], p[2]) = {expected}
                       /\ Cardinality(EdgeAt(g_edges', p[1], p[2])) = 1
                       /\ NotJoining(g_edges', p[1], p[2])
                              = NotJoining(g_edges, p[1], p[2])
                       /\ Len(g_edges') = Len(g_edges)
                              + (IF old = {} THEN 1 ELSE 0)
                       /\ DOMAIN g_nodes' = (DOMAIN g_nodes) \cup {p[1], p[2]}
                       /\ \A c \in DOMAIN g_nodes : g_nodes'[c] = g_nodes[c]
                       /\ \A c \in {p[1], p[2]} \ DOMAIN g_nodes :
                             g_nodes'[c] = NodeAt(now)]_vars

\* an edge created at time 0 as dog-animal has been reinforced at time 1 by
\* a call naming the pair in the other order, next to an untouched edge
C24_Witness ==
    /\ graph_last.op = "create"
    /\ graph_last.a = "animal" /\ graph_last.b = "dog"
    /\ Len(g_edges) = 2
    /\ \E i \in DOMAIN g_edges :
          /\ g_edges[i].a = "dog" /\ g_edges[i].b = "animal"
          /\ g_edges[i].reinforcement_count = 2
          /\ g_edges[i].creation_time = 0
          /\ g_edges[i].last_reinforcement = 1
          /\ g_edges[i].strength = 960

\* get_associations(c1) on the graph lists c2 with the strength s
Lists(nodes, edges, c1, c2, s, t) ==
    \E x \in Range(get_associations(nodes, edges, c1, MaxResults, t)) :
        x.concept = c2 /\ x.strength = s

(* C25: when create_association(a, b, s) returns, the edge a-b exists,
   whatever the graph held before and also when it was at its edge limit;
   get_associations(a) called next lists b, with strength s when the edge is
   new and s is at least the association threshold. *)
C25_ReadYourWrite ==
    [][\A p \in ConceptPairs, st \in Strengths, ty \in AssociationTypes :
          CreateAssociation(p[1], p[2], st, ty) =>
              /\ has_edge(g_edges', p[1], p[2])
              /\ (st >= AssociationThreshold /\ ~has_edge(g_edges, p[1], p[2]))
                    => Lists(g_nodes', g_edges', p[1], p[2], st, now)]_vars

(* C26: store(key, content, importance) of a key the cache holds replaces
   the content and the importance of its item and adds one to its
   access_count, and evicts nothing, also on a full cache: the keys, their
   number and order and the item's timestamp stay, and so does every other
   item. *)
C26_UpsertFrame ==
    [][\A k \in UpsertKeys, c \in Contents, imp \in UpsertImportances :
          (/\ k \in DOMAIN item_map
           /\ wm_last'.op = "store" /\ wm_last'.key = k
           /\ Store(k, c, imp)) =>
              /\ items' = items
              /\ DOMAIN item_map' = DOMAIN item_map
              /\ item_map'[k].content = c
              /\ item_map'[k].importance = imp
              /\ item_map'[k].access_count = item_map[k].access_count + 1
              /\ item_map'[k].timestamp = item_map[k].timestamp
              /\ \A o \in (DOMAIN item_map) \ {k} : item_map'[o] = item_map[o]
              /\ capacity' = capacity]_vars

\* a full cache of two items whose older key has just been stored again, at
\* a later time
C26_Witness ==
    /\ wm_last.op = "store"
    /\ capacity = 2 /\ Len(items) = 2
    /\ items[1] = wm_last.key
    /\ wm_last.key \in DOMAIN item_map
    /\ item_map[wm_last.key].access_count = 1
    /\ item_map[wm_last.key].timestamp = 0
    /\ item_map[wm_last.key].last_access = 1
    /\ item_map[wm_last.key].content = "c2"

(* C27: after any sequence of store, retrieve and clear calls the deque of
   keys and the map of items hold the same keys, none twice, so
   get_current_context lists every item that retrieve finds exactly once, in
   insertion order, and nothing else. *)
C27_SnapshotConsistent ==
    LET context == get_current_context(items, item_map, now)
    IN /\ Range(items) = DOMAIN item_map
       /\ \A i, j \in DOMAIN items : items[i] = items[j] => i = j
       /\ Len(context) = Len(items)
       /\ \A i \in DOMAIN context : context[i].key = items[i]
       /\ \A k \in DOMAIN item_map :
             Cardinality({i \in DOMAIN context : context[i].key = k}) = 1

\* the predicates of a search that an episode satisfies, as the callers
\* understand them
Satisfies(row, q) ==
    /\ q.query # <<>> =>
          \/ Contains(ContentText(JsonLoads(row.content)), Chars(q.query[1]))
          \/ Contains(ContextText(JsonLoads(row.context)), Chars(q.query[1]))
    /\ q.tags # <<>> => Range(q.tags[1]) \cap Range(JsonLoads(row.tags)) # {}
    /\ q.emotional_range # <<>> =>
          /\ row.emotional_valence >= q.emotional_range[1][1]
          /\ row.emotional_valence <= q.emotional_range[1][2]
    /\ q.importance_threshold # <<>> =>
          row.importance >= q.importance_threshold[1]
    /\ q.time_range # <<>> =>
          /\ row.timestamp >= q.time_range[1][1]
          /\ row.timestamp <= q.time_range[1][2]

\* importance descending, then timestamp descending
OrderedBefore(r, s) ==
    \/ r.importance > s.importance
    \/ r.importance = s.importance /\ r.timestamp > s.timestamp

(* C28: search_episodes returns the first max_results episodes, by
   importance descending and then timestamp descending, of the stored
   episodes that satisfy every predicate passed: text contained in content
   or context, a tag in common, valence within the range, importance at
   least the threshold, timestamp within the range.  A predicate left out
   constrains nothing; a predicate passed is never ignored. *)
C28_SearchSemantics ==
    epi_last.op = "search_episodes" =>
        LET q == epi_last.q
            result == epi_last.result
            matching == {i \in DOMAIN episodes : Satisfies(episodes[i], q)}
            returned == {i \in DOMAIN episodes :
                            \E k \in DOMAIN result : result[k].id = episodes[i].id}
        IN /\ returned \subseteq matching
           /\ Len(result) = Min(Cardinality(matching), epi_last.max_results)
           /\ Cardinality(returned) = Len(result)
           /\ \A k \in DOMAIN result : \A n \in DOMAIN result :
                 k < n => ~OrderedBefore(result[n], result[k])
           /\ \A i \in matching \ returned : \A j \in returned :
                 ~OrderedBefore(episodes[i], episodes[j])

\* the ids of the rows of a table
Ids(table) == {table[i].id : i \in DOMAIN table}

\* <<importance, timestamp>> of the row with the id `x` once store_episode
\* has written the row `id` with the importance `importance` at time t
SortKey(table, id, importance, t, x) ==
    IF x = id THEN <<importance, t>>
    ELSE LET i == CHOOSE k \in DOMAIN table : table[k].id = x
         IN <<table[i].importance, table[i].timestamp>>

\* importance ascending, then timestamp ascending
KeyBefore(k1, k2) == k1[1] < k2[1] \/ (k1[1] = k2[1] /\ k1[2] < k2[2])

\* store_episode(id, ...) with `importance` ends with the rows `removed`
\* gone: the lowest `n` of the table in the order of the pruning
PrunedLowest(id, importance, n) ==
    LET before == Ids(episodes) \cup {id}
        removed == before \ Ids(episodes')
        Key(x) == SortKey(episodes, id, importance, now, x)
    IN /\ Ids(episodes') \subseteq before
       /\ Cardinality(removed) = n
       /\ \A r \in removed : \A s \in Ids(episodes') :
             ~KeyBefore(Key(s), Key(r))

(* C29: a store_episode that leaves count <= max_episodes deletes nothing;
   one that makes count exceed max_episodes removes exactly
   count - max_episodes + 100 rows, the lowest by importance ascending and
   then timestamp ascending. *)
C29_PruningHysteresis ==
    [][\A id \in PruneIds, importance \in PruneImportances :
          StoreEpisode(id, PruneInput(importance)) =>
              LET count == Cardinality(Ids(episodes) \cup {id})
              IN IF count <= max_episodes
                 THEN PrunedLowest(id, importance, 0)
                 ELSE PrunedLowest(id, importance,
                                   count - max_episodes + CleanupMargin)]_vars

(* C29 as the code has it: the number removed is count - max_episodes + 100
   or, on a table with fewer rows than that, all of them. *)
C29_PruningHysteresisUpToCount ==
    [][\A id \in PruneIds, importance \in PruneImportances :
          StoreEpisode(id, PruneInput(importance)) =>
              LET count == Cardinality(Ids(episodes) \cup {id})
              IN IF count <= max_episodes
                 THEN PrunedLowest(id, importance, 0)
                 ELSE PrunedLowest(id, importance,
                          Min(count, count - max_episodes + CleanupMargin))]_vars

\* a store has pruned a table of 102 rows under the limit 101 down to one
\* row, and the row it wrote is the one that stayed
C29_Witness ==
    /\ epi_last.op = "store"
    /\ epi_last.pruned = LimitAboveMargin
    /\ Len(episodes) = max_episodes - CleanupMargin
    /\ Len(episodes) = 1
    /\ episodes[1].id = epi_last.id

(* C30: get_similar_episodes returns each episode at most once, also one
   found both by the tag search and by the valence search, never the
   reference episode, only episodes whose similarity is at least the
   threshold, at most max_results of them, in non-increasing similarity. *)
C30_SimilarResultSet ==
    epi_last.op = "similar" =>
        LET result == epi_last.result
            reference == epi_last.reference
            Sim(k) == calculate_similarity(reference, result[k])
        IN /\ \A k, n \in DOMAIN result : result[k].id = result[n].id => k = n
           /\ \A k \in DOMAIN result : result[k].id # reference.id
           /\ \A k \in DOMAIN result : Sim(k) >= epi_last.threshold
           /\ Len(result) <= epi_last.max_results
           /\ \A k, n \in DOMAIN result : k < n => Sim(k) >= Sim(n)

\* the edges of the graph once create_association(c1, c2, st) has created
\* or reinforced its edge, before the pruning check
Updated(c1, c2, st, ty) ==
    IF has_edge(g_edges, c1, c2)
    THEN {IF {e.a, e.b} = {c1, c2} THEN Reinforce(e, st, now) ELSE e :
             e \in Range(g_edges)}
    ELSE Range(g_edges) \cup {NewEdge(c1, c2, st, ty, now)}

(* C31: a create_association that leaves the number of edges at most
   max_associations removes nothing; one that makes it exceed the limit
   removes exactly min(count, count - max_associations + 100) edges, those
   of the lowest decayed strength (every edge removed is at most as strong
   as every edge that stays), and then the nodes left without an edge. *)
C31_GraphPruning ==
    [][\A p \in PrunePairs, st \in PruneStrengths :
          (/\ graph_last'.op = "create"
           /\ graph_last'.a = p[1] /\ graph_last'.b = p[2]
           /\ CreateAssociation(p[1], p[2], st, "general")) =>
              LET updated == Updated(p[1], p[2], st, "general")
                  count == Cardinality(updated)
                  staying == Range(g_edges')
                  removed == updated \ staying
                  nodes == (DOMAIN g_nodes) \cup {p[1], p[2]}
              IN /\ staying \subseteq updated
                 /\ Len(g_edges') = Cardinality(staying)
                 /\ IF count <= max_associations
                    THEN /\ removed = {}
                         /\ DOMAIN g_nodes' = nodes
                    ELSE /\ Cardinality(removed) =
                               Min(count, count - max_associations
                                              + GraphCleanupMargin)
                         /\ \A r \in removed : \A s \in staying :
                               apply_decay(r, now) <= apply_decay(s, now)
                         /\ DOMAIN g_nodes' =
                               {c \in nodes :
                                   \E s \in staying : c \in {s.a, s.b}}]_vars

\* 102 edges under the limit 101 have been pruned to one: the edge written
\* at time 1 with 0.89375 stayed, those written at time 0 with 0.9 went
C31_Witness ==
    /\ graph_last.op = "create"
    /\ graph_last.removed = LimitAboveMargin
    /\ Len(g_edges) = 1
    /\ g_edges[1].strength = 1430
    /\ g_edges[1].last_reinforcement = 1
    /\ DOMAIN g_nodes = {"a", "b"}

\* C32: in every state of the graph reached by create_association, the reads
\* (get_associations, activate_concepts, find_path, get_concept_clusters),
\* cleanup passes and consolidation runs, every node is an endpoint of at
\* least one edge (its own self-loop counts).
C32_NoIsolatedConcepts ==
    \A c \in DOMAIN g_nodes :
        \E i \in DOMAIN g_edges : c \in {g_edges[i].a, g_edges[i].b}

\* a concept whose only edge is its self-loop has been read
C32_Witness ==
    /\ has_node(g_nodes, "cat")
    /\ g_nodes["cat"].activation_count > 0
    /\ \A i \in IncidentAt(g_edges, "cat") : g_edges[i].a = g_edges[i].b

\* what a read may change: nothing of the edges or of the limit, no node
\* added or removed, no creation time, and the activation count and time
\* of the concepts in `touched` only
ReadFrame(touched) ==
    /\ g_edges' = g_edges
    /\ max_associations' = max_associations
    /\ DOMAIN g_nodes' = DOMAIN g_nodes
    /\ \A c \in DOMAIN g_nodes :
          /\ g_nodes'[c].creation_time = g_nodes[c].creation_time
          /\ c \notin touched => g_nodes'[c] = g_nodes[c]

\* C33: get_associations, activate_concepts, find_path and
\* get_concept_clusters leave the set of edges and every edge's strength,
\* last_reinforcement, reinforcement_count, type and creation_time as they
\* were; the only thing they change is the activation count and the
\* last-activation time of the queried concept or of the seeds.
C33_DecayIsReadOnly ==
    [][/\ \A c \in {"dog", "cat"} :
             GetAssociations(c, MaxResults) => ReadFrame({c})
       /\ \A concepts \in OpsSeedLists :
             ActivateConcepts(concepts) => ReadFrame(Range(concepts))
       /\ \A q \in OpsPathQueries :
             FindPath(q[1], q[2], ReadMaxLength) => ReadFrame({})
       /\ \A n \in OpsClusterSizes :
             GetConceptClusters(n) => ReadFrame({})]_vars

\* get_associations has returned an association at its decayed strength,
\* below the strength the edge still holds
C33_Witness ==
    /\ graph_last.op = "get_associations"
    /\ graph_last.result # <<>>
    /\ g_nodes[graph_last.concept].activation_count > 0
    /\ \E i \in EdgeAt(g_edges, graph_last.concept, graph_last.result[1].concept) :
          /\ graph_last.result[1].strength < g_edges[i].strength
          /\ g_edges[i].last_reinforcement < graph_last.at

\* C34: a graph constructed on the path of a snapshot that save_associations
\* has written in full has the nodes, the edges and every node and edge
\* attribute of the graph that was saved; constructed with no file at the
\* path it is empty.
C34_SnapshotRoundTrip ==
    [][Restart =>
         IF snap_file = NoFile
         THEN g_nodes' = EmptyGraph[1] /\ g_edges' = EmptyGraph[2]
         ELSE Unpickles(snap_file[1]) =>
                 /\ snap_saved # <<>>
                 /\ g_nodes' = snap_saved[1][1]
                 /\ g_edges' = snap_saved[1][2]]_vars

\* a new process has loaded a saved graph with a reinforced edge
C34_Witness ==
    /\ graph_last.op = "load"
    /\ snap_saved = << <<g_nodes, g_edges>> >>
    /\ \E i \in DOMAIN g_edges : g_edges[i].reinforcement_count > 1

\* the rows get_recent_episodes(count) returns
RecentSet(count) ==
    {i \in DOMAIN episodes :
        Cardinality({j \in DOMAIN episodes : MoreRecent(episodes, j, i)})
            < count}

\* the rows among `recent` that carry the tag
CarriersIn(recent, tag) ==
    {i \in recent : tag \in Range(JsonLoads(episodes[i].tags))}

\* the strength handed to create_association for a pattern of `size`
\* episodes out of `over`: size / over * 0.5
PatternStrength(size, over) ==
    (((size * ActivationOne) \div over) * HalfStrength) \div ActivationOne

\* how many concept names the rows hold
RECURSIVE ConceptTotal(_)
ConceptTotal(rows) ==
    IF rows = {} THEN 0
    ELSE LET i == CHOOSE x \in rows : TRUE
         IN Len(JsonLoads(episodes[i].content)) + ConceptTotal(rows \ {i})

\* the reinforcements a consolidation run has queued are those of the tags
\* carried by at least 3 of the 50 most recent episodes: for each of them
\* one for every pair of positions of the concept names of its episodes,
\* each at strength size / over * 0.5
QueuedPatterns(over) ==
    \A recent \in {RecentSet(RecentCount)} :
    \A patterns \in {{tag \in UNION {Range(JsonLoads(episodes[i].tags)) :
                                        i \in recent} :
                        Cardinality(CarriersIn(recent, tag)) >= PatternMinimum}} :
       /\ {c.tag : c \in Range(mgr_queue')} \subseteq patterns
       /\ \A tag \in patterns :
          \A carriers \in {CarriersIn(recent, tag)} :
          \A n \in {ConceptTotal(carriers)} :
          \A queued \in {{k \in DOMAIN mgr_queue' : mgr_queue'[k].tag = tag}} :
               /\ 2 * Cardinality(queued) = n * (n - 1)
               /\ \A k \in queued :
                    /\ mgr_queue'[k].strength
                         = PatternStrength(Cardinality(carriers), over)
                    /\ \E i, j \in carriers :
                          /\ mgr_queue'[k].a \in Range(JsonLoads(episodes[i].content))
                          /\ mgr_queue'[k].b \in Range(JsonLoads(episodes[j].content))

\* a successful step of trigger_consolidation into a run
RunStarts == mgr_pc = "idle" /\ mgr_pc' = "reinforce" /\ TriggerConsolidation

\* C35: a consolidation run takes the 50 most recent episodes; a tag is a
\* pattern exactly when at least 3 of them carry it; its strength is the
\* size of its group divided by 50, however many episodes the store holds;
\* every pair of concepts of the pattern's episodes is reinforced with
\* create_association at that strength times 0.5.
C35_PatternStrength ==
    [][RunStarts => QueuedPatterns(RecentCount)]_vars

\* C35 as amended: the strength is the size of the group divided by the
\* number of episodes the run has taken, which is 50 only when the store
\* holds at least 50.
C35_PatternStrengthOfTaken ==
    [][RunStarts => QueuedPatterns(Min(Len(episodes), RecentCount))]_vars

\* a run over a store of fewer than 50 episodes has queued reinforcements
C35_Witness ==
    /\ mgr_pc = "reinforce"
    /\ mgr_queue # <<>>
    /\ Len(episodes) < RecentCount
    /\ mgr_queue[1].strength
         = PatternStrength(Cardinality(CarriersIn(DOMAIN episodes,
                                                  mgr_queue[1].tag)),
                           Len(episodes))

\* C36: in one turn the input is cached, the episode stored and the
\* associations created before the recall and the activation run; hence a
\* relationship (s, t) of strength >= the threshold extracted in the turn,
\* with s a concept of confidence > 0.5, puts t in the activation map of
\* the turn, and the turn's own cache entry and episode are there for the
\* turn's recall.
C36_WritesPrecedeReads ==
    [][\A user_input \in TurnInputs, p \in TurnPercepts :
          ProcessTurn(user_input, p) =>
             /\ \A k \in DOMAIN p.relationships :
                   (/\ p.relationships[k].strength >= AssociationThreshold
                    /\ p.relationships[k].source
                          \in Range(ConceptsToActivate(p)))
                   => p.relationships[k].target \in DOMAIN graph_last'.result
             /\ InputKey(now) \in DOMAIN item_map'
             /\ \E i \in DOMAIN episodes' :
                   episodes'[i].id = TurnEpisodeId(user_input, now)]_vars

\* the row of the table with this id
RowOf(table, id) == table[CHOOSE i \in DOMAIN table : table[i].id = id]

Stored(table, id) == \E i \in DOMAIN table : table[i].id = id

\* every row other than those in `ids` is in `after` as it was in `before`
OthersKept(before, after, ids) ==
    \A i \in DOMAIN before :
        before[i].id \notin ids =>
            /\ Stored(after, before[i].id)
            /\ RowOf(after, before[i].id) = before[i]

\* C37: store_episode with the id of a stored episode replaces its row: the
\* number of rows stays, the fields are those of the call, the timestamp is
\* the time of the call and access_count is 0 again; between stores each
\* retrieve_episode of a stored id and each search_episodes that returns
\* the episode adds exactly 1 to its access_count, and get_recent_episodes
\* changes no access_count.
C37_UpsertAndAccessCounting ==
    [][/\ \A id \in AccessIds, in \in AccessInputs :
             (epi_last'.op = "store" /\ Stored(episodes, id)
              /\ StoreEpisode(id, in)) =>
                /\ Len(episodes') = Len(episodes)
                /\ Stored(episodes', id)
                /\ RowOf(episodes', id) = EpisodeRow(id, in, now)
                /\ RowOf(episodes', id).timestamp = now
                /\ RowOf(episodes', id).access_count = 0
                /\ OthersKept(episodes, episodes', {id})
       /\ \A id \in AccessIds :
             (epi_last'.op = "retrieve" /\ Stored(episodes, id)
              /\ RetrieveEpisode(id)) =>
                /\ RowOf(episodes', id).access_count
                      = RowOf(episodes, id).access_count + 1
                /\ OthersKept(episodes, episodes', {id})
       /\ \A q \in AccessQueries, max_results \in AccessLimits :
             (epi_last'.op = "search_episodes"
              /\ SearchEpisodes(q, max_results)) =>
                /\ Len(episodes') = Len(episodes)
                /\ \A i \in DOMAIN episodes :
                      RowOf(episodes', episodes[i].id).access_count
                         = episodes[i].access_count
                           + (IF \E k \in DOMAIN epi_last'.result :
                                    epi_last'.result[k].id = episodes[i].id
                              THEN 1 ELSE 0)
       /\ \A count \in AccessCounts :
             (epi_last'.op = "get_recent_episodes"
              /\ GetRecentEpisodes(count)) => episodes' = episodes]_vars

\* an episode that a search has returned, along with another, has been
\* stored again under its id
C37_Witness ==
    /\ epi_last.op = "store"
    /\ epi_last.id = "e1"
    /\ \E i \in DOMAIN episodes : episodes[i].access_count > 0
    /\ Len(episodes) = Len(MixedEpisodes)
    /\ Stored(episodes, "e1")
    /\ RowOf(episodes, "e1").timestamp > 0
    /\ RowOf(episodes, "e1").access_count = 0
    /\ RowOf(episodes, "e1").last_access = 0

\* C38: after any sequence of turns and consolidation runs, the pairwise
\* reinforcement over the concept names of a pattern's episodes included,
\* no edge of the graph joins a concept to itself.
C38_NoSelfAssociations ==
    \A i \in DOMAIN g_edges : g_edges[i].a # g_edges[i].b

\* C39: when the graph holds a path from a to b of at most max_length
\* hops, find_path(a, b, max_length) returns a path; it does not return
\* None because the path of least weight has more hops than another one.
C39_PathWithinHopBound ==
    [][\A q \in PathQueries, m \in MaxLengths :
          (graph_last'.op = "find_path" /\ FindPath(q[1], q[2], m)) =>
             ((/\ has_node(g_nodes, q[1])
               /\ has_node(g_nodes, q[2])
               /\ \E path \in PathsFrom(g_edges, <<q[1]>>, q[2]) :
                     Len(path) <= m + 1)
                 => graph_last'.result # <<>>)]_vars

====
